---- MODULE Spec2Model ----
(***************************************************************************)
(* Model of watchtower's cache-to-store import engine (src/watchtower.py): *)
(* the response validator, the merge of one cache file into a database,    *)
(* the batch import with its private copy and lock, and the lock marker    *)
(* protocol shared by import, optimize and cache clear.                    *)
(***************************************************************************)
EXTENDS Integers, Sequences, FiniteSets, TLC

VARIABLES
    store,      \* the durable database file
    cache,      \* the cache files that exist in the cache directory
    marker,     \* marker[r]: the lock marker file <r>.lock exists
    pc,         \* pc[p]: position of process p in its command handler
    op,         \* op[p]: the command p runs ("import", "optimize", "clear")
    files,      \* files[p]: the file list of p's command
    idx,        \* idx[p]: number of files of the list already handled
    force,      \* force[p]: args.force of p's import
    temp,       \* temp[p]: p's private in-memory copy (temp_db_conn)
    res,        \* res[p]: the resource whose lock p acquires or holds
    fd,         \* fd[p]: "none", or the state of the marker inode p has flocked
    outcome,    \* outcome[p]: how p's current or last command went
    snap,       \* snap[p]: the durable store when p's command started
    tripped,    \* tripped[p]: how the import of each file p has reached ended
    started,    \* number of commands started so far
    serial,     \* the committed batches applied one after the other
    forced,     \* some import was started with force
    rpc,        \* position of the reader in search_table
    rargs,      \* the arguments of the reader's search
    rcols,      \* the columns of the search once they are checked
    rquery,     \* the query of the search once it is normalized
    rtotal,     \* total_count of the search
    rfiltered,  \* filtered_count of the search
    rres,       \* what the search returned or raised
    rlog,       \* what each statement of the search met, in order
    searches,   \* number of searches started so far
    web,        \* the last request of the web application and its response
    call        \* the output of a module on its way into a cache file and back

wvars == <<store, cache, marker, pc, op, files, idx, force, temp, res, fd,
           outcome, snap, tripped, started, serial, forced>>

rvars == <<rpc, rargs, rcols, rquery, rtotal, rfiltered, rres, rlog, searches, web, call>>

vars == <<wvars, rvars>>

(***************************************************************************)
(* Scalar values of a row.  A value is a pair <<python type, n>>; the      *)
(* string numbered n >= 0 is the decimal numeral of n, a string with a     *)
(* negative number is a text that is no numeral.                           *)
(***************************************************************************)
NULL == <<"null", 0>>

IntV(n) == <<"int", n>>

StrV(n) == <<"str", n>>

TextV == <<"str", -1>>

\* sqlite_utils.suggest_column_types for one column: the SQL type of the python
\* types seen in it (None is ignored next to another type, None alone is TEXT).
TypeForColumn(pytypes) ==
    LET t == IF Cardinality(pytypes) > 1 THEN pytypes \ {"null"} ELSE pytypes
    IN  IF t = {"int"} THEN "INTEGER" ELSE "TEXT"

\* The keys of a list of rows.
KeysOf(rows) == UNION {DOMAIN rows[i] : i \in 1..Len(rows)}

\* suggest_column_types(rows): a type for every key seen in the rows.
SuggestColumnTypes(rows) ==
    [c \in KeysOf(rows) |->
        TypeForColumn({rows[i][c][1] : i \in {j \in 1..Len(rows) : c \in DOMAIN rows[j]}})]

\* SQLite's column affinity applied to a value stored in a column of type ty.
Affinity(ty, v) ==
    IF ty = "INTEGER" /\ v[1] = "str" /\ v[2] >= 0 THEN IntV(v[2])
    ELSE IF ty = "TEXT" /\ v[1] = "int" THEN StrV(v[2])
    ELSE v

\* The order in which the row keys of the modelled payloads are listed;
\* import_id is added last by r.update({'import_id': import_id}).
KeyOrder == <<"k", "v", "w", "import_id">>

RECURSIVE SeqFilter(_, _)
SeqFilter(s, keep) ==
    IF s = <<>> THEN <<>>
    ELSE IF Head(s) \in keep THEN <<Head(s)>> \o SeqFilter(Tail(s), keep)
    ELSE SeqFilter(Tail(s), keep)

SeqRange(s) == {s[i] : i \in 1..Len(s)}

(***************************************************************************)
(* Table names are sequences of characters, so that Regex.FTS_TABLE is     *)
(* evaluated on them the way re.match evaluates it.                        *)
(***************************************************************************)
Imports == <<"i", "m", "p", "o", "r", "t", "s">>

Dev == <<"d", "e", "v">>

Svc == <<"s", "v", "c">>

SvcFtsData == Svc \o <<"_", "f", "t", "s", "_", "d", "a", "t", "a">>

NlFts == <<"a", "\n", "b", "_", "f", "t", "s">>

OpenPorts == <<"o", "-", "p">>

\* The alternatives of the group in Regex.FTS_TABLE.
FtsSuffixes ==
    { <<"_", "f", "t", "s">>,
      <<"_", "f", "t", "s", "_", "c", "o", "n", "f", "i", "g">>,
      <<"_", "f", "t", "s", "_", "d", "a", "t", "a">>,
      <<"_", "f", "t", "s", "_", "d", "o", "c", "s", "i", "z", "e">>,
      <<"_", "f", "t", "s", "_", "i", "d", "x">> }

\* re.match('^.*(_fts|_fts_config|_fts_data|_fts_docsize|_fts_idx)$', name):
\* '.' matches any character but a newline, '$' matches at the end of the
\* string and before a newline that ends it.
ReMatchFtsTable(name) ==
    \E i \in 0..Len(name), suf \in FtsSuffixes :
        /\ \A j \in 1..i : name[j] # "\n"
        /\ i + Len(suf) <= Len(name)
        /\ SubSeq(name, i + 1, i + Len(suf)) = suf
        /\ \/ i + Len(suf) = Len(name)
           \/ i + Len(suf) + 1 = Len(name) /\ name[Len(name)] = "\n"

\* A name that ends in one of the reserved suffixes.
EndsInFtsSuffix(name) ==
    \E suf \in FtsSuffixes :
        /\ Len(suf) <= Len(name)
        /\ SubSeq(name, Len(name) - Len(suf) + 1, Len(name)) = suf

(***************************************************************************)
(* Parsed cache-file payloads.  Every JSON value carries its python shape, *)
(* so that the validator's truthiness and type tests are computed on it.   *)
(*   data   : [shape: "garbage" | "none" | "other" | "dict", tables]       *)
(*   tables : [shape: "absent" | "other" | "dict", items: Seq(entry)]      *)
(*   entry  : [name, shape: "dict" | "other", pk, rows]                    *)
(*   pk     : [shape: "absent" | "str" | "other", col]                     *)
(*   rows   : [shape: "absent" | "other" | "list", items: Seq(item)]       *)
(*   item   : [shape: "dict" | "other", row]                               *)
(* "garbage" is a file json.load cannot decode; "other" is a truthy value  *)
(* of another python type (a non-empty list, string or number).            *)
(***************************************************************************)
NoPk == ""

PkAbsent == [shape |-> "absent", col |-> NoPk]

PkStr(c) == [shape |-> "str", col |-> c]

PkOther == [shape |-> "other", col |-> NoPk]

RowItem(r) == [shape |-> "dict", row |-> r]

NotARow == [shape |-> "other", row |-> <<>>]

RowList(items) == [shape |-> "list", items |-> items]

RowsAbsent == [shape |-> "absent", items |-> <<>>]

RowsOther == [shape |-> "other", items |-> <<>>]

Entry(name, pk, rows) == [name |-> name, shape |-> "dict", pk |-> pk, rows |-> rows]

NotAnEntry(name) == [name |-> name, shape |-> "other", pk |-> PkAbsent, rows |-> RowsAbsent]

Tables(items) == [shape |-> "dict", items |-> items]

Data(items) == [shape |-> "dict", tables |-> Tables(items)]

DataNoTables == [shape |-> "dict", tables |-> [shape |-> "absent", items |-> <<>>]]

DataTablesOther == [shape |-> "dict", tables |-> [shape |-> "other", items |-> <<>>]]

DataNone == [shape |-> "none", tables |-> [shape |-> "absent", items |-> <<>>]]

DataOther == [shape |-> "other", tables |-> [shape |-> "absent", items |-> <<>>]]

Garbage == [shape |-> "garbage", tables |-> [shape |-> "absent", items |-> <<>>]]

\* Python truthiness of a pk value and of a rows value.
PkTruthy(pk) == pk.shape = "other" \/ (pk.shape = "str" /\ pk.col # NoPk)

RowsTruthy(rows) == rows.shape = "other" \/ (rows.shape = "list" /\ rows.items # <<>>)

\* The body of the validator's loop for one table: the statements in the
\* order of the source, each ending the validation when it raises.
ValidateEntry(e) ==
    IF e.name = Imports THEN "AssertionError"
    ELSE IF ReMatchFtsTable(e.name) THEN "AssertionError"
    ELSE IF e.shape # "dict" THEN "AttributeError"      \* .get('pk') of a non-dict
    ELSE IF PkTruthy(e.pk) /\ e.pk.shape # "str" THEN "AssertionError"
    ELSE IF ~RowsTruthy(e.rows) THEN "AssertionError"
    ELSE IF e.rows.shape # "list" THEN "AssertionError"
    ELSE IF \E i \in 1..Len(e.rows.items) : e.rows.items[i].shape # "dict"
         THEN "AssertionError"
    ELSE "ok"

RECURSIVE ValidateEntries(_)
ValidateEntries(items) ==
    IF items = <<>> THEN "ok"
    ELSE LET r == ValidateEntry(Head(items))
         IN  IF r # "ok" THEN r ELSE ValidateEntries(Tail(items))

\* Watchtower.validate_module_response(data): "ok", or the exception raised.
validate_module_response(data) ==
    IF data.shape = "none" THEN "AssertionError"
    ELSE IF data.shape # "dict" THEN "AssertionError"
    ELSE IF data.tables.shape = "absent" THEN "AssertionError"
    ELSE IF data.tables.shape = "dict" /\ data.tables.items = <<>> THEN "AssertionError"
    ELSE IF data.tables.shape # "dict" THEN "AssertionError"
    ELSE ValidateEntries(data.tables.items)

(***************************************************************************)
(* A database: the imports table (when it exists, its rows in rowid        *)
(* order) and the domain tables by name.  A domain table holds its columns *)
(* in declaration order with their types, the primary key it was created   *)
(* with, its rows in insertion order, the columns its full-text shadow     *)
(* table covers and the columns that lead an index.  The timestamp column  *)
(* of an Import Record is left out.                                        *)
(***************************************************************************)
NoTables == [n \in {} |-> 0]

EmptyDb == [hasImports |-> FALSE, imports |-> <<>>, tables |-> NoTables]

TableExists(db, name) == name \in DOMAIN db.tables

PutTable(db, name, t) ==
    [db EXCEPT !.tables = [n \in DOMAIN db.tables \cup {name} |->
                              IF n = name THEN t ELSE db.tables[n]]]

\* A stamping that keeps the import_id a row brings along.
Stamp_KeepSupplied(rows, id) ==
    [i \in 1..Len(rows) |->
        [c \in DOMAIN rows[i] \cup {"import_id"} |->
            IF c \in DOMAIN rows[i] THEN rows[i][c] ELSE IntV(id)]]

\* r.update({'import_id': import_id}) for every row of the table spec.
Stamp(rows, id) ==
    [i \in 1..Len(rows) |->
        [c \in DOMAIN rows[i] \cup {"import_id"} |->
            IF c = "import_id" THEN IntV(id) ELSE rows[i][c]]]

\* The primary key column is an alias of the rowid.
RowidAlias(t) == t.pk # NoPk /\ t.types[t.pk] = "INTEGER"

\* table.create(suggest_column_types(rows), pk=pk), add_foreign_key and
\* enable_fts over the columns the table then has.  A primary key that is not
\* INTEGER gets SQLite's automatic index.
CreateTable(rows, pk) ==
    LET types == SuggestColumnTypes(rows)
    IN  [cols  |-> SeqFilter(KeyOrder, KeysOf(rows)),
         types |-> types,
         pk    |-> pk,
         rows  |-> <<>>,
         fts   |-> KeysOf(rows),
         idx   |-> IF pk # NoPk /\ types[pk] # "INTEGER" THEN {pk} ELSE {}]

\* An insert that adds no column to the table.
AddMissingColumns_None(t, rows) == t

\* insert_all(..., alter=True): the columns the rows carry and the table lacks
\* are added (ALTER TABLE ADD COLUMN); stored rows read NULL in them.
AddMissingColumns(t, rows) ==
    LET missing == KeysOf(rows) \ SeqRange(t.cols)
        sug     == SuggestColumnTypes(rows)
        cols2   == t.cols \o SeqFilter(KeyOrder, missing)
    IN  [t EXCEPT
            !.cols  = cols2,
            !.types = [c \in SeqRange(cols2) |->
                          IF c \in missing THEN sug[c] ELSE t.types[c]],
            !.rows  = [i \in 1..Len(t.rows) |->
                          [c \in SeqRange(cols2) |->
                              IF c \in missing THEN NULL ELSE t.rows[i][c]]]]

\* The largest rowid of a table whose primary key aliases the rowid.
RECURSIVE MaxRowid(_, _)
MaxRowid(rows, pk) ==
    IF rows = <<>> THEN 0
    ELSE LET m == MaxRowid(Tail(rows), pk)
             v == Head(rows)[pk][2]
         IN  IF v > m THEN v ELSE m

\* A stored row that keeps, in the columns the row does not carry, the values
\* of the stored row with the same primary key.
StoredRow_Merged(t, stored, row) ==
    LET same == {i \in 1..Len(stored) :
                    /\ t.pk # NoPk
                    /\ t.pk \in DOMAIN row
                    /\ stored[i][t.pk] = Affinity(t.types[t.pk], row[t.pk])}
    IN  [c \in SeqRange(t.cols) |->
            IF c \in DOMAIN row THEN Affinity(t.types[c], row[c])
            ELSE IF same # {} THEN stored[CHOOSE i \in same : TRUE][c]
            ELSE NULL]

\* The row as stored: every column of the table, affinity applied, NULL for a
\* column the row does not carry, the next rowid for a NULL rowid alias.
StoredRow(t, stored, row) ==
    LET full == [c \in SeqRange(t.cols) |->
                    IF c \in DOMAIN row THEN Affinity(t.types[c], row[c]) ELSE NULL]
    IN  IF RowidAlias(t) /\ full[t.pk] = NULL
        THEN [full EXCEPT ![t.pk] = IntV(MaxRowid(stored, t.pk) + 1)]
        ELSE full

\* SQLITE_MISMATCH: a value that is no integer for an INTEGER PRIMARY KEY.
DatatypeMismatch(t, row) ==
    /\ RowidAlias(t)
    /\ t.pk \in DOMAIN row
    /\ Affinity("INTEGER", row[t.pk])[1] = "str"

\* A replace that clears the table before it inserts the row.
InsertOrReplace_Clearing(t, stored, row) == <<StoredRow(t, stored, row)>>

\* INSERT OR IGNORE in the place of a replace: a row whose key is stored
\* already is dropped, the stored row stays.
InsertOrReplace_Ignoring(t, stored, row) ==
    LET new == StoredRow(t, stored, row)
    IN  IF \E i \in 1..Len(stored) :
               t.pk # NoPk /\ new[t.pk] # NULL /\ stored[i][t.pk] = new[t.pk]
        THEN stored
        ELSE stored \o <<new>>

\* INSERT OR REPLACE of one row: a stored row with the same value in the
\* table's own primary key is deleted, the new row is appended.
InsertOrReplace(t, stored, row) ==
    LET new  == StoredRow(t, stored, row)
        kept == {i \in 1..Len(stored) :
                    ~(t.pk # NoPk /\ new[t.pk] # NULL /\ stored[i][t.pk] = new[t.pk])}
        RECURSIVE Keep(_)
        Keep(i) == IF i > Len(stored) THEN <<>>
                   ELSE IF i \in kept THEN <<stored[i]>> \o Keep(i + 1)
                   ELSE Keep(i + 1)
    IN  Keep(1) \o <<new>>

RECURSIVE InsertRows(_, _, _)
InsertRows(t, stored, rows) ==
    IF rows = <<>> THEN stored
    ELSE InsertRows(t, InsertOrReplace(t, stored, Head(rows)), Tail(rows))

\* table.insert_all(rows, pk=pk, alter=True, replace=True) on an existing
\* table: one statement for the rows, undone as a whole by an IntegrityError;
\* the pk argument plays no part once the table exists.
InsertAll(t, rows) ==
    LET t1 == AddMissingColumns(t, rows)
    IN  IF \E i \in 1..Len(rows) : DatatypeMismatch(t1, rows[i])
        THEN [ok |-> FALSE, t |-> t1]
        ELSE [ok |-> TRUE, t |-> [t1 EXCEPT !.rows = InsertRows(t1, t1.rows, rows)]]

\* An indexing that asks for an index on every column of the table.
ColumnsToIndex_All(t) == SeqRange(t.cols)

\* set([c.name for c in table.columns]) - set([i.columns[0] for i in
\* table.indexes]): the columns that lead no index.
ColumnsToIndex(t) == SeqRange(t.cols) \ t.idx

\* The columns whose index create_index has made: every column that leads an
\* index but a primary key with SQLite's automatic index.
NamedIndexes(t) == t.idx \ (IF RowidAlias(t) THEN {} ELSE {t.pk})

\* create_index raises OperationalError when an index of the name it makes,
\* idx_<table>_<k>, exists: when it is asked for a column that has one.
IndexExists(t) == ColumnsToIndex(t) \cap NamedIndexes(t) # {}

\* [table.create_index([k]) for k in ...]: an index is made for every column
\* asked for.
CreateIndexes(t) == [t EXCEPT !.idx = @ \cup ColumnsToIndex(t)]

(***************************************************************************)
(* The cache files of the model.  A file has a name <module>_<timestamp>   *)
(* and bytes; json.load and hashlib.sha1 are functions of the bytes, so    *)
(* two files with the same bytes parse alike and share their sha1.         *)
(***************************************************************************)
Row11 == [k |-> IntV(1), v |-> IntV(1)]

Row12w == [k |-> IntV(1), v |-> IntV(2), w |-> IntV(1)]

Row2 == [k |-> IntV(2), v |-> IntV(1)]

RowText == [k |-> TextV, v |-> IntV(1)]

RowV == [v |-> IntV(1)]

Row12 == [k |-> IntV(1), v |-> IntV(2)]

\* A row in which the module supplies an import_id of its own.
Row3Stamped == [k |-> IntV(3), v |-> IntV(1), import_id |-> IntV(9)]

AllFiles == {"m1_1", "m1_2", "m1_3", "m2_1", "m3_1", "m3_2", "m3_3", "m4_1", "m5_1", "m6_1",
             "m7_1"}

FileBytes(f) ==
    CASE f = "m1_1" -> "A"
      [] f = "m1_2" -> "A"
      [] f = "m1_3" -> "B"
      [] f = "m2_1" -> "C"
      [] f = "m3_1" -> "D"
      [] f = "m3_2" -> "E"
      [] f = "m3_3" -> "F"
      [] f = "m4_1" -> "G"
      [] f = "m5_1" -> "H"
      [] f = "m6_1" -> "I"
      [] f = "m7_1" -> "J"

\* json.load(f, object_hook=Helpers.json_deserializer) of the bytes.
JsonLoad(bytes) ==
    CASE bytes = "A" -> Data(<<Entry(Dev, PkStr("k"), RowList(<<RowItem(Row11)>>))>>)
      [] bytes = "B" -> Data(<<Entry(Dev, PkStr("k"), RowList(<<RowItem(Row12w)>>))>>)
      [] bytes = "C" -> Data(<<Entry(Svc, PkAbsent, RowList(<<RowItem(RowV)>>)),
                               Entry(Dev, PkStr("k"), RowList(<<RowItem(Row2), RowItem(RowText)>>))>>)
      [] bytes = "D" -> Data(<<Entry(Svc, PkAbsent, RowList(<<RowItem(RowV)>>)),
                               Entry(Imports, PkAbsent, RowList(<<RowItem(RowV)>>))>>)
      [] bytes = "E" -> Data(<<Entry(SvcFtsData, PkAbsent, RowList(<<RowItem(RowV)>>)),
                               Entry(Svc, PkAbsent, RowList(<<RowItem(RowV)>>))>>)
      [] bytes = "F" -> Data(<<Entry(NlFts, PkAbsent, RowList(<<RowItem(RowV)>>))>>)
      [] bytes = "G" -> Data(<<Entry(Svc, PkAbsent, RowList(<<RowItem(RowV)>>)),
                               NotAnEntry(Dev)>>)
      [] bytes = "H" -> Data(<<Entry(Dev, PkAbsent, RowList(<<RowItem(Row11)>>))>>)
      [] bytes = "I" -> Data(<<Entry(OpenPorts, PkAbsent,
                                     RowList(<<RowItem(Row2), RowItem(Row12)>>))>>)
      [] bytes = "J" -> Data(<<Entry(Dev, PkStr("k"), RowList(<<RowItem(Row3Stamped)>>))>>)

\* hashlib.sha1(fb.read()).hexdigest(): the digest names the bytes.
Sha1(bytes) == <<"sha1", bytes>>

\* Helpers.get_module_name_from_file: the name up to its last underscore.
get_module_name_from_file(f) ==
    CASE f \in {"m1_1", "m1_2", "m1_3"} -> "m1"
      [] f = "m2_1" -> "m2"
      [] f \in {"m3_1", "m3_2", "m3_3"} -> "m3"
      [] f = "m4_1" -> "m4"
      [] f = "m5_1" -> "m5"
      [] f = "m6_1" -> "m6"
      [] f = "m7_1" -> "m7"

\* The rows of a validated table entry.
RowsOfEntry(e) == [i \in 1..Len(e.rows.items) |-> e.rows.items[i].row]

\* The end of a pass of the loop over data.get('tables'), where r is what
\* insert_all has left of the table: an IntegrityError leaves the loop before
\* the indexes are created, an OperationalError of create_index leaves it
\* with the rows inserted, and otherwise the columns that lead no index are
\* indexed.
InsertAndIndex(db, name, r) ==
    IF ~r.ok THEN [result |-> "integrity", db |-> PutTable(db, name, r.t)]
    ELSE IF IndexExists(r.t) THEN [result |-> "error", db |-> PutTable(db, name, r.t)]
    ELSE [result |-> "imported", db |-> PutTable(db, name, CreateIndexes(r.t))]

\* One pass of the loop over data.get('tables'): create the table when it is
\* absent, insert the stamped rows, index the columns that lead no index.
ImportTable(db, e, import_id) ==
    LET rows == Stamp(RowsOfEntry(e), import_id)
        t0   == IF TableExists(db, e.name) THEN db.tables[e.name]
                ELSE CreateTable(rows, e.pk.col)
    IN  InsertAndIndex(db, e.name, InsertAll(t0, rows))

RECURSIVE ImportTables(_, _, _)
ImportTables(db, items, import_id) ==
    IF items = <<>> THEN [result |-> "imported", db |-> db]
    ELSE LET r == ImportTable(db, Head(items), import_id)
         IN  IF r.result = "imported" THEN ImportTables(r.db, Tail(items), import_id) ELSE r

\* A lookup that never finds an Import Record: every file is merged anew.
AlreadyImported_Never(db, import_row) == FALSE

\* A lookup by file name instead of by content hash.
AlreadyImported_ByFile(db, import_row) ==
    \E i \in 1..Len(db.imports) : db.imports[i].file = import_row.file

\* imports_table.rows_where('sha1 = ?', [sha1]) is not empty, for the sha1 of
\* import_row.
AlreadyImported(db, import_row) ==
    \E i \in 1..Len(db.imports) : db.imports[i].sha1 = import_row.sha1

\* Watchtower._import_file(db_conn, filepath, force) for a file that can be
\* opened: the database it leaves and how it ended.
\*   "invalid"   JSONDecodeError or AssertionError, caught and reported
\*   "error"     another exception of the validator or of the merge, which
\*               escapes
\*   "skipped"   already imported and not forced
\*   "integrity" IntegrityError, caught and reported
\*   "imported"  every table merged
import_file(db, f, forced_) ==
    LET data == JsonLoad(FileBytes(f))
        sha1 == Sha1(FileBytes(f))
        v    == IF data.shape = "garbage" THEN "JSONDecodeError"
                ELSE validate_module_response(data)
        db1  == [db EXCEPT !.hasImports = TRUE]
        id   == Len(db.imports) + 1
        rec  == [id |-> id, module |-> get_module_name_from_file(f),
                 file |-> f, sha1 |-> sha1]
        db2  == [db1 EXCEPT !.imports = Append(db.imports, rec)]
        r    == ImportTables(db2, data.tables.items, id)
    IN  IF v \in {"JSONDecodeError", "AssertionError"} THEN [result |-> "invalid", db |-> db]
        ELSE IF v # "ok" THEN [result |-> "error", db |-> db]
        ELSE IF AlreadyImported(db1, rec) /\ ~forced_ THEN [result |-> "skipped", db |-> db1]
        ELSE r

\* The loop of _cache_import over files that can all be read and raise nothing
\* that escapes: the private copy after the last file.
RECURSIVE ImportBatch(_, _, _)
ImportBatch(db, fs, forced_) ==
    IF fs = <<>> THEN db
    ELSE ImportBatch(import_file(db, Head(fs), forced_).db, Tail(fs), forced_)

(***************************************************************************)
(* Db.search_table.  A search is a sequence of statements, each of which   *)
(* reads the database on its own: the checks of the table and the columns, *)
(* the count of the table, the count of the matching rows and the select   *)
(* of the page.  The statements search_table writes itself name the table  *)
(* without quotes.  A query is absent (None) or a string, a sequence of    *)
(* characters; normalize_fts_query turns a string into the list of phrases *)
(* that the match joins with OR, or into None.                             *)
(***************************************************************************)
NoColumns == <<>>

NoQuery == [shape |-> "none", n |-> 0]

Text(chars) == [shape |-> "text", chars |-> chars]

Digits == <<"0", "1", "2", "3", "4", "5", "6", "7", "8", "9">>

\* str(n) for a number of one digit.
Numeral(n) == <<Digits[n + 1]>>

\* The query that is the numeral of n.
Word(n) == Text(Numeral(n))

Letters ==
    {"a", "b", "c", "d", "e", "f", "g", "h", "i", "j", "k", "l", "m",
     "n", "o", "p", "q", "r", "s", "t", "u", "v", "w", "x", "y", "z"}

Quote == "\""

\* The characters \s matches and the characters \w matches.
IsSpace(c) == c \in {" ", "\n", "\r", "\t"}

IsWordChar(c) == c \in Letters \cup SeqRange(Digits) \cup {"_"}

\* The least position >= i of character c in s, or 0.
RECURSIVE Find(_, _, _)
Find(s, c, i) ==
    IF i > Len(s) THEN 0 ELSE IF s[i] = c THEN i ELSE Find(s, c, i + 1)

\* re.findall('"[^"]*"', query) with p.replace('"', '') applied to each: the
\* texts between a quote and the next quote, from left to right.
RECURSIVE Phrases(_, _)
Phrases(s, i) ==
    LET a == Find(s, Quote, i)
        b == IF a = 0 THEN 0 ELSE Find(s, Quote, a + 1)
    IN  IF b = 0 THEN <<>> ELSE <<SubSeq(s, a + 1, b - 1)>> \o Phrases(s, b + 1)

\* s starts with p.
StartsWith(s, p) == Len(p) <= Len(s) /\ SubSeq(s, 1, Len(p)) = p

\* query.replace(p, ''): every occurrence of p, from left to right, is left
\* out; with p empty the string is as it was.
RECURSIVE Without(_, _)
Without(s, p) ==
    IF p = <<>> \/ s = <<>> THEN s
    ELSE IF StartsWith(s, p) THEN Without(SubSeq(s, Len(p) + 1, Len(s)), p)
    ELSE <<Head(s)>> \o Without(Tail(s), p)

\* for p in phrases: query = query.replace(p, '')
RECURSIVE WithoutAll(_, _)
WithoutAll(s, phrases) ==
    IF phrases = <<>> THEN s ELSE WithoutAll(Without(s, Head(phrases)), Tail(phrases))

\* \b matches between the characters i and i + 1 of s.
IsBoundary(s, i) ==
    (i >= 1 /\ IsWordChar(s[i])) # (i < Len(s) /\ IsWordChar(s[i + 1]))

\* The end of the run of characters that are no space which starts after i.
RECURSIVE RunEnd(_, _)
RunEnd(s, i) ==
    IF i < Len(s) /\ ~IsSpace(s[i + 1]) THEN RunEnd(s, i + 1) ELSE i

\* re.findall('\\b[^\\s]*\\b', query) with the empty matches left out
\* (filter(None, ...)): from a boundary the match runs over the characters
\* that are no space and backs up to the last boundary.
RECURSIVE Keywords(_, _)
Keywords(s, i) ==
    IF i > Len(s) THEN <<>>
    ELSE LET ends == {j \in i..RunEnd(s, i) : IsBoundary(s, j)}
             m    == CHOOSE j \in ends : \A k \in ends : k <= j
         IN  IF IsBoundary(s, i) /\ m > i
             THEN <<SubSeq(s, i + 1, m)>> \o Keywords(s, m + 1)
             ELSE Keywords(s, i + 1)

\* k.replace('"', '').replace('\'', '').replace(' ', '').replace('\n', '')
\* .replace('\r', '').replace(',', '')
Stripped(k) == SeqFilter(k, SeqRange(k) \ {Quote, "'", " ", "\n", "\r", ","})

\* '" OR "'.join(terms)
RECURSIVE Join(_)
Join(terms) ==
    IF terms = <<>> THEN <<>>
    ELSE IF Len(terms) = 1 THEN terms[1]
    ELSE terms[1] \o <<Quote, " ", "O", "R", " ", Quote>> \o Join(Tail(terms))

\* Db.normalize_fts_query(query): the phrases and the keywords of the query,
\* or None when the string they are joined into is empty.  phrases.count and
\* keywords.count are methods, so the join is always made.
normalize_fts_query(s) ==
    LET phrases  == Phrases(s, 1)
        rest     == WithoutAll(s, phrases)
        found    == Keywords(rest, 0)
        keywords == [i \in 1..Len(found) |-> Stripped(found[i])]
        terms    == phrases \o keywords
    IN  IF Join(terms) = <<>> THEN NoQuery
        ELSE [shape |-> "terms", terms |-> terms]

\* query = Db.normalize_fts_query(query) if query else None
NormalQuery(query) ==
    IF query.shape = "none" \/ query.chars = <<>> THEN NoQuery
    ELSE normalize_fts_query(query.chars)

\* The tokens of a phrase: its runs of word characters.
RECURSIVE Tokens(_)
Tokens(s) ==
    IF s = <<>> THEN <<>>
    ELSE IF ~IsWordChar(Head(s)) THEN Tokens(Tail(s))
    ELSE LET n == CHOOSE j \in 1..Len(s) :
                      /\ \A k \in 1..j : IsWordChar(s[k])
                      /\ j = Len(s) \/ ~IsWordChar(s[j + 1])
         IN  <<SubSeq(s, 1, n)>> \o Tokens(SubSeq(s, n + 1, Len(s)))

\* A phrase matches a value: the value is a numeral, one token, and the
\* phrase is that token.
PhraseMatches(phrase, v) ==
    /\ v[1] \in {"int", "str"}
    /\ v[2] \in 0..9
    /\ Tokens(phrase) = <<Numeral(v[2])>>

\* SQLite reads the unquoted name as one identifier.
BareIdentifier(name) ==
    /\ name # <<>>
    /\ \A i \in 1..Len(name) : name[i] \in Letters \cup {"_"}

\* direction.lower()
Lower(direction) ==
    CASE direction = "ASC" -> "asc"
      [] direction = "DESC" -> "desc"
      [] OTHER -> direction

\* 'DESC' if direction.lower() in ['desc', 'descending'] else 'ASC'
NormalDirection(direction) ==
    IF Lower(direction) \in {"desc", "descending"} THEN "DESC" ELSE "ASC"

\* SQLite's order of values: NULL, then numbers, then text.
SqlClass(v) == CASE v[1] = "null" -> 0 [] v[1] = "int" -> 1 [] v[1] = "str" -> 2

SqlLess(v, w) ==
    \/ SqlClass(v) < SqlClass(w)
    \/ /\ SqlClass(v) = SqlClass(w)
       /\ v # w
       /\ IF v[1] = "str" /\ (v[2] < 0 \/ w[2] < 0) THEN w[2] < 0 ELSE v[2] < w[2]

\* The lists of the rows given by their positions, in every order ORDER BY
\* <column c> <direction> may return them: rows equal in c come in any order.
OrderedBy(t, positions, c, direction) ==
    LET n     == Cardinality(positions)
        perms == {g \in [1..n -> positions] : \A i, j \in 1..n : i # j => g[i] # g[j]}
        InOrder(g) == \A i \in 1..(n - 1) :
                          IF direction = "ASC"
                          THEN ~SqlLess(t.rows[g[i + 1]][c], t.rows[g[i]][c])
                          ELSE ~SqlLess(t.rows[g[i]][c], t.rows[g[i + 1]][c])
    IN  {[i \in 1..n |-> t.rows[g[i]]] : g \in {h \in perms : InOrder(h)}}

\* LIMIT and OFFSET applied to a list: a negative limit is no limit, a
\* negative offset is no offset.
Page(rows, limit, offset) ==
    LET from == IF offset > 0 THEN offset ELSE 0
        upto == IF limit >= 0 /\ from + limit < Len(rows) THEN from + limit ELSE Len(rows)
    IN  SubSeq(rows, from + 1, upto)

\* dict(row) of a row of the select list.
Restrict(row, columns) == [c \in SeqRange(columns) |-> row[c]]

\* table_exists, column_exists for every requested column, or all the columns
\* of the table when none is requested.
CheckColumns(db, table, columns) ==
    IF ~TableExists(db, table) THEN [error |-> "AssertionError", columns |-> <<>>]
    ELSE IF columns = NoColumns THEN [error |-> "none", columns |-> db.tables[table].cols]
    ELSE IF \E i \in 1..Len(columns) : columns[i] \notin SeqRange(db.tables[table].cols)
    THEN [error |-> "AssertionError", columns |-> <<>>]
    ELSE [error |-> "none", columns |-> columns]

\* self.db.table(table).count
TotalCount(db, table) ==
    IF ~TableExists(db, table) THEN [error |-> "OperationalError", n |-> 0]
    ELSE [error |-> "none", n |-> Len(db.tables[table].rows)]

\* A statement search_table writes fails to compile: the table it names
\* without quotes is not there or is not read as its name, a column of the
\* select list is not there, or the match names a column the shadow table
\* lacks.
StatementFails(db, table, columns, query) ==
    \/ ~BareIdentifier(table)
    \/ ~TableExists(db, table)
    \/ ~(SeqRange(columns) \subseteq SeqRange(db.tables[table].cols))
    \/ query # NoQuery /\ ~(SeqRange(columns) \subseteq db.tables[table].fts)

\* The positions of the rows the statement ranges over: every row, or the
\* rows that match '{' + ' '.join(columns) + '}: ' + query, the query being
\* normalized.  The column filter binds the first phrase only: the phrases
\* after the first OR are looked for in every column of the shadow table.
Matching(t, columns, query) ==
    IF query = NoQuery THEN 1..Len(t.rows)
    ELSE {i \in 1..Len(t.rows) :
             \/ \E c \in SeqRange(columns) : PhraseMatches(query.terms[1], t.rows[i][c])
             \/ \E n \in 2..Len(query.terms), c \in t.fts :
                    PhraseMatches(query.terms[n], t.rows[i][c])}

\* SELECT COUNT(*) ... WHERE rowid IN (SELECT rowid FROM <table>_fts WHERE
\* <table>_fts MATCH ?)
FilteredCount(db, table, columns, query) ==
    IF StatementFails(db, table, columns, query) THEN [error |-> "OperationalError", n |-> 0]
    ELSE [error |-> "none", n |-> Cardinality(Matching(db.tables[table], columns, query))]

\* SELECT <columns> FROM <table> [WHERE rowid IN (...)] ORDER BY <order>
\* <direction> [LIMIT <limit>] [OFFSET <offset>]: the outcomes it may have.
\* LIMIT is written for a limit that is not 0 and OFFSET for an offset that
\* is not 0; OFFSET without LIMIT is a syntax error, and so is an order that
\* numbers no column of the select list.
SelectPage(db, table, columns, query, order, direction, limit, offset) ==
    IF \/ StatementFails(db, table, columns, query)
       \/ order \notin 1..Len(columns)
       \/ limit = 0 /\ offset # 0
    THEN {[error |-> "OperationalError", rows |-> <<>>]}
    ELSE LET t == db.tables[table]
         IN  {[error |-> "none",
               rows |-> [i \in 1..Len(Page(sorted, IF limit = 0 THEN -1 ELSE limit, offset)) |->
                           Restrict(Page(sorted, IF limit = 0 THEN -1 ELSE limit, offset)[i],
                                    columns)]] :
              sorted \in OrderedBy(t, Matching(t, columns, query), columns[order],
                                   NormalDirection(direction))}

\* search_table on a database that no statement of it sees change: what it
\* may return or raise.
SearchTable(db, a) ==
    LET c == CheckColumns(db, a.table, a.columns)
        t == TotalCount(db, a.table)
        q == NormalQuery(a.query)
        f == IF q = NoQuery THEN t
             ELSE FilteredCount(db, a.table, c.columns, q)
        Failed(e) == [error |-> e, total |-> 0, filtered |-> 0, rows |-> <<>>]
    IN  IF c.error # "none" THEN {Failed(c.error)}
        ELSE IF t.error # "none" THEN {Failed(t.error)}
        ELSE IF f.error # "none" THEN {Failed(f.error)}
        ELSE {IF r.error # "none" THEN Failed(r.error)
              ELSE [error |-> "none", total |-> t.n, filtered |-> f.n, rows |-> r.rows] :
              r \in SelectPage(db, a.table, c.columns, q, a.order,
                               a.direction, a.limit, a.offset)}

(***************************************************************************)
(* The request handler global_search of the web application.  A request    *)
(* parameter is absent or a string; the configuration of the web           *)
(* application has no section for the database, or a section that lists    *)
(* tables with their columns.                                              *)
(***************************************************************************)
Absent == [given |-> FALSE, chars |-> <<>>]

Param(chars) == [given |-> TRUE, chars |-> chars]

\* Helpers.empty_to_none(request.values.get(name, None)) is None.
IsNone(param) == ~param.given \/ param.chars = <<>>

\* str.strip() of the white space int() ignores.
RECURSIVE Strip(_)
Strip(s) ==
    IF s = <<>> THEN s
    ELSE IF IsSpace(Head(s)) THEN Strip(Tail(s))
    ELSE IF IsSpace(s[Len(s)]) THEN Strip(SubSeq(s, 1, Len(s) - 1))
    ELSE s

\* The number a sequence of digits is the decimal numeral of.
RECURSIVE Decimal(_)
Decimal(ds) ==
    IF ds = <<>> THEN 0
    ELSE 10 * Decimal(SubSeq(ds, 1, Len(ds) - 1))
         + (CHOOSE n \in 0..9 : Digits[n + 1] = ds[Len(ds)])

\* int(s) of a string: an optional sign and digits, or ValueError.
ParseInt(s) ==
    LET t      == Strip(s)
        signed == t # <<>> /\ t[1] \in {"+", "-"}
        ds     == IF signed THEN Tail(t) ELSE t
        ok     == ds # <<>> /\ \A i \in 1..Len(ds) : ds[i] \in SeqRange(Digits)
    IN  [error |-> IF ok THEN "none" ELSE "ValueError",
         n     |-> IF ~ok THEN 0
                   ELSE IF signed /\ t[1] = "-" THEN 0 - Decimal(ds) ELSE Decimal(ds)]

NoSection == [section |-> FALSE, tables |-> <<>>]

\* A section that gives the table its columns.
Section(table, columns) == [section |-> TRUE, tables |-> (table :> columns)]

\* DataTables.get_table_config(db, [table])[table].split(','): the columns
\* the configuration gives the table, every column of the table when there
\* is no section or the value is blank, KeyError when the section lacks the
\* table.
ConfiguredColumns(db, config, table) ==
    IF ~config.section
    THEN [error |-> "none", columns |-> db.tables[table].cols]
    ELSE IF table \notin DOMAIN config.tables
    THEN [error |-> "KeyError", columns |-> <<>>]
    ELSE IF config.tables[table] = <<>>
    THEN [error |-> "none", columns |-> db.tables[table].cols]
    ELSE [error |-> "none", columns |-> config.tables[table]]

\* A request to /api/v1/search and the configuration it is served under.
Request(table, query, order, direction, dir, length, start, config) ==
    [table |-> table, query |-> query, order |-> order, direction |-> direction,
     dir |-> dir, length |-> length, start |-> start, config |-> config]

\* DataTables.get_response: the counts and the rows, or the empty result
\* with an error string.
Response(total, filtered, rows) ==
    [escaped |-> "none", error |-> FALSE, total |-> total, filtered |-> filtered,
     rows |-> rows]

ErrorResponse ==
    [escaped |-> "none", error |-> TRUE, total |-> 0, filtered |-> 0, rows |-> <<>>]

\* An exception leaves the handler: the request has no JSON response.
Escaped(exception) ==
    [escaped |-> exception, error |-> TRUE, total |-> 0, filtered |-> 0, rows |-> <<>>]

\* global_search on a database that exists: the responses it may give.  The
\* conversions of order, direction, length and start are made before the try
\* block; a direction that int() accepts reaches search_table as a number,
\* which has no lower().
global_search(db, r) ==
    IF IsNone(r.table) THEN {ErrorResponse}
    ELSE IF ~TableExists(db, r.table.chars) THEN {ErrorResponse}
    ELSE
    LET table     == r.table.chars
        config    == ConfiguredColumns(db, r.config, table)
        order     == IF IsNone(r.order) THEN [error |-> "none", n |-> 1]
                     ELSE ParseInt(r.order.chars)
        direction == IF IsNone(r.direction) THEN [error |-> "none", n |-> 0]
                     ELSE ParseInt(r.direction.chars)
        limit     == IF IsNone(r.length) THEN [error |-> "none", n |-> 10]
                     ELSE ParseInt(r.length.chars)
        offset    == IF IsNone(r.start) THEN [error |-> "none", n |-> 0]
                     ELSE ParseInt(r.start.chars)
        default   == IF r.dir.given /\ r.dir.chars = <<"d", "e", "s", "c">>
                     THEN "DESC" ELSE "ASC"
        query     == IF IsNone(r.query) THEN NoQuery ELSE Text(r.query.chars)
    IN  IF config.error # "none" THEN {Escaped(config.error)}
        ELSE IF order.error # "none" THEN {Escaped(order.error)}
        ELSE IF direction.error # "none" THEN {Escaped(direction.error)}
        ELSE IF limit.error # "none" THEN {Escaped(limit.error)}
        ELSE IF offset.error # "none" THEN {Escaped(offset.error)}
        ELSE IF ~IsNone(r.direction) THEN {ErrorResponse}
        ELSE {IF found.error # "none" THEN ErrorResponse
              ELSE Response(found.total, found.filtered, found.rows) :
              found \in SearchTable(db, [table |-> table, columns |-> config.columns,
                                        query |-> query, order |-> order.n,
                                        direction |-> default, limit |-> limit.n,
                                        offset |-> offset.n])}

(***************************************************************************)
(* Cache files as text.  A value of a row is an integer, a string of       *)
(* characters, a date or a date-time (without microseconds and zone); in   *)
(* the JSON text it is a number or a string.                               *)
(***************************************************************************)
CharsV(chars) == <<"chars", chars>>

DateV(y, m, d) == <<"date", y, m, d>>

DateTimeV(y, m, d, h, mi, sec) == <<"datetime", y, m, d, h, mi, sec>>

\* n in w decimal digits.
Pad(n, w) == [i \in 1..w |-> Digits[((n \div (10 ^ (w - i))) % 10) + 1]]

\* date.isoformat() and datetime.isoformat().
isoformat(v) ==
    LET day == Pad(v[2], 4) \o <<"-">> \o Pad(v[3], 2) \o <<"-">> \o Pad(v[4], 2)
    IN  IF v[1] = "date" THEN day
        ELSE day \o <<"T">> \o Pad(v[5], 2) \o <<":">> \o Pad(v[6], 2) \o <<":">> \o Pad(v[7], 2)

\* Helpers.json_serializer(obj), called by json.dumps for the values it
\* cannot write itself.
json_serializer(obj) == isoformat(obj)

\* json.dumps(value, default=Helpers.json_serializer) of a value of a row.
JsonDumpsValue(v) ==
    CASE v[1] = "int" -> <<"number", v[2]>>
      [] v[1] = "chars" -> <<"string", v[2]>>
      [] OTHER -> <<"string", json_serializer(v)>>

\* re.match of a pattern made of literal characters and digit classes: in
\* the pattern, 9 is \d, 1 is [01], 2 is [0-2], 3 is [0-3] and 5 is [0-5].
ReMatch(pattern, s) ==
    /\ Len(s) = Len(pattern)
    /\ \A i \in 1..Len(s) :
          CASE pattern[i] = "9" -> s[i] \in SeqRange(Digits)
            [] pattern[i] = "1" -> s[i] \in {"0", "1"}
            [] pattern[i] = "2" -> s[i] \in {"0", "1", "2"}
            [] pattern[i] = "3" -> s[i] \in {"0", "1", "2", "3"}
            [] pattern[i] = "5" -> s[i] \in {"0", "1", "2", "3", "4", "5"}
            [] OTHER -> s[i] = pattern[i]

\* Regex.DATE_ISO.
DATE_ISO == <<"9", "9", "9", "9", "-", "9", "9", "-", "9", "9">>

\* Regex.DATETIME_ISO.
DATETIME_ISO == DATE_ISO \o <<" ", "9", "9", ":", "9", "9", ":", "9", "9">>

\* Regex.DATETIME_FULL_ISO, for strings without a sign, a fraction of a
\* second and a zone, and with a colon before the seconds.
DATETIME_FULL_ISO ==
    LET year  == <<"9", "9", "9", "9">>
        month == year \o <<"-", "1", "9">>
        day   == month \o <<"-", "3", "9">>
        min   == day \o <<"T", "2", "9", ":", "5", "9">>
    IN  {year, month, day, min, min \o <<":", "5", "9">>}

\* The number of days of a month.
DaysIn(y, m) ==
    IF m = 2 THEN (IF (y % 4 = 0 /\ y % 100 # 0) \/ y % 400 = 0 THEN 29 ELSE 28)
    ELSE IF m \in {4, 6, 9, 11} THEN 30 ELSE 31

\* date.fromisoformat(s) and datetime.fromisoformat(s) of a string that
\* matched: the value, or ValueError.
fromisoformat(s) ==
    LET n(i, j) == Decimal(SubSeq(s, i, j))
        y   == n(1, 4)
        m   == n(6, 7)
        d   == n(9, 10)
        h   == n(12, 13)
        mi  == n(15, 16)
        sec == IF Len(s) = 19 THEN n(18, 19) ELSE 0
        day == y >= 1 /\ m \in 1..12 /\ d \in 1..DaysIn(y, m)
    IN  IF Len(s) = 10
        THEN [error |-> ~day, value |-> DateV(y, m, d)]
        ELSE IF Len(s) \in {16, 19}
        THEN [error |-> ~(day /\ h <= 23 /\ mi <= 59 /\ sec <= 59),
              value |-> DateTimeV(y, m, d, h, mi, sec)]
        ELSE [error |-> TRUE, value |-> CharsV(s)]

\* A string of the JSON text matches one of the patterns and its conversion
\* raises: fromisoformat rejects it, or strptime is reached.
FailsConversion(chars) ==
    IF ReMatch(DATE_ISO, chars) \/ \E pattern \in DATETIME_FULL_ISO : ReMatch(pattern, chars)
    THEN fromisoformat(chars).error
    ELSE ReMatch(DATETIME_ISO, chars)

\* A hook without the try: the exception of a conversion leaves it.
json_deserializer_Raising(v) ==
    IF v[1] = "number" THEN IntV(v[2])
    ELSE IF FailsConversion(v[2]) THEN <<"raised", v[2]>>
    ELSE IF ReMatch(DATE_ISO, v[2]) \/ \E pattern \in DATETIME_FULL_ISO : ReMatch(pattern, v[2])
    THEN fromisoformat(v[2]).value
    ELSE CharsV(v[2])

\* What Helpers.json_deserializer leaves in a dict for one of its values:
\* a string that matches a pattern is replaced by what it parses to, and
\* stays when the parsing raises.
json_deserializer(v) ==
    IF v[1] = "number" THEN IntV(v[2])
    ELSE LET chars == v[2]
         IN  IF ReMatch(DATE_ISO, chars)
             THEN (IF fromisoformat(chars).error THEN CharsV(chars)
                   ELSE fromisoformat(chars).value)
             ELSE IF \E pattern \in DATETIME_FULL_ISO : ReMatch(pattern, chars)
             THEN (IF fromisoformat(chars).error THEN CharsV(chars)
                   ELSE fromisoformat(chars).value)
             ELSE IF ReMatch(DATETIME_ISO, chars)
             THEN CharsV(chars)      \* strptime rejects DateTime.DATETIME_ISO_FORMAT
             ELSE CharsV(chars)

\* A Module Response with every value of every row replaced.
MapValues(data, F(_)) ==
    LET row(r)   == [c \in DOMAIN r |-> F(r[c])]
        item(it) == IF it.shape = "dict" THEN [it EXCEPT !.row = row(it.row)] ELSE it
        rows(rs) == [rs EXCEPT !.items = [j \in DOMAIN rs.items |-> item(rs.items[j])]]
        entry(e) == [e EXCEPT !.rows = rows(e.rows)]
    IN  [data EXCEPT !.tables.items =
            [i \in DOMAIN data.tables.items |-> entry(data.tables.items[i])]]

\* json.dumps(output, default=Helpers.json_serializer).
json_dumps(output) == MapValues(output, JsonDumpsValue)

\* json.load(f, object_hook=Helpers.json_deserializer).
json_load(text) == MapValues(text, json_deserializer)

\* The hook has raised for a value of a row: json.load passes the exception
\* on, and _import_file, which catches JSONDecodeError and AssertionError,
\* passes it on to the loop of the batch.
HookRaised(data) ==
    \E i \in DOMAIN data.tables.items :
        \E j \in DOMAIN data.tables.items[i].rows.items :
            LET it == data.tables.items[i].rows.items[j]
            IN  it.shape = "dict" /\ \E c \in DOMAIN it.row : it.row[c][1] = "raised"

(***************************************************************************)
(* Processes, commands and locks.  Each process runs one command at a      *)
(* time.  A lock marker is a file <resource>.lock; a process that holds    *)
(* the flock of a marker holds it on the inode it opened, which is either  *)
(* still linked at the marker's path ("linked") or has been removed from   *)
(* it since ("orphan").                                                    *)
(***************************************************************************)
MaxOps == 3
\* The number of commands a run of one process alone starts at most.
MaxSeqOps == 2

MaxBatch == 2

\* The number of searches the reader starts at most.
MaxSearches == 1

Procs == {1, 2}

DbPath == "db"

Resources == {DbPath} \cup AllFiles

\* The order in which a directory listing returns the cache files.
FileOrder == <<"m1_1", "m1_2", "m1_3", "m2_1", "m3_1", "m3_2", "m3_3", "m4_1", "m5_1", "m6_1",
              "m7_1">>

ModulesOf(pool) == {get_module_name_from_file(f) : f \in pool}

\* Watchtower._get_all_cache_files(match): the cache files of a module.
get_all_cache_files(m) ==
    SeqFilter(FileOrder, {f \in cache : get_module_name_from_file(f) = m})

\* The lists of at most n elements of a pool.
RECURSIVE Batches(_, _)
Batches(pool, n) ==
    IF n = 0 THEN {<<>>}
    ELSE LET shorter == Batches(pool, n - 1)
         IN  shorter \cup {Append(b, f) : b \in shorter, f \in pool}

Distinct(b) == \A i, j \in 1..Len(b) : i # j => b[i] # b[j]

\* The process that holds the flock of the inode linked at r's marker path.
LinkedHolders(r) == {q \in Procs : res[q] = r /\ fd[q] = "linked"}

\* The arguments of search_table.
Args(table, columns, query, order, direction, limit, offset) ==
    [table |-> table, columns |-> columns, query |-> query, order |-> order,
     direction |-> direction, limit |-> limit, offset |-> offset]

NoArgs == Args(<<>>, NoColumns, NoQuery, 1, "ASC", 0, 0)

\* What search_table returns (error "none") or the exception it raises.
Result(error, total, filtered, rows) ==
    [error |-> error, total |-> total, filtered |-> filtered, rows |-> rows]

NoResult == Result("pending", 0, 0, <<>>)

\* No request has been made.
NoWeb == [request |-> <<>>, response |-> <<>>]

\* What a statement of the search meets: the database, the processes that
\* hold a lock, those that wait for one, and the imports that have merged a
\* part of their batch into their private copy.
Met ==
    [db      |-> store,
     held    |-> {p \in Procs : fd[p] # "none"},
     waiting |-> {p \in Procs : pc[p] = "acquire"},
     staged  |-> {p \in Procs : pc[p] = "locked" /\ op[p] = "import"
                                  /\ 0 < idx[p] /\ idx[p] < Len(files[p])}]

\* No module has run.
NoCall == [step |-> "none", output |-> <<>>, valid |-> "pending", text |-> <<>>, loaded |-> <<>>]

\* A module has returned the output.
Call(output) ==
    [step |-> "output", output |-> output, valid |-> "pending", text |-> <<>>, loaded |-> <<>>]

\* The state after construction, but for the output of a module.
InitBut ==
    /\ store = EmptyDb
    /\ cache = AllFiles
    /\ marker = [r \in Resources |-> FALSE]
    /\ pc = [p \in Procs |-> "idle"]
    /\ op = [p \in Procs |-> "none"]
    /\ files = [p \in Procs |-> <<>>]
    /\ idx = [p \in Procs |-> 0]
    /\ force = [p \in Procs |-> FALSE]
    /\ temp = [p \in Procs |-> EmptyDb]
    /\ res = [p \in Procs |-> DbPath]
    /\ fd = [p \in Procs |-> "none"]
    /\ outcome = [p \in Procs |-> "none"]
    /\ snap = [p \in Procs |-> EmptyDb]
    /\ tripped = [p \in Procs |-> <<>>]
    /\ started = 0
    /\ serial = EmptyDb
    /\ forced = FALSE
    /\ rpc = "idle"
    /\ rargs = NoArgs
    /\ rcols = <<>>
    /\ rquery = NoQuery
    /\ rtotal = 0
    /\ rfiltered = 0
    /\ rres = NoResult
    /\ rlog = <<>>
    /\ searches = 0
    /\ web = NoWeb

Init == InitBut /\ call = NoCall

\* _cache_import up to the lock: the file list is settled (every file exists),
\* the database is copied into the private copy, the lock object is made.
StartImport(p, pool, forces) ==
    /\ pc[p] = "idle"
    /\ started < MaxOps
    /\ \E b \in Batches(pool \cap cache, MaxBatch), f \in forces :
        /\ b # <<>>
        /\ Distinct(b)
        /\ files' = [files EXCEPT ![p] = b]
        /\ force' = [force EXCEPT ![p] = f]
        /\ forced' = (forced \/ f)
    /\ temp' = [temp EXCEPT ![p] = store]
    /\ snap' = [snap EXCEPT ![p] = store]
    /\ op' = [op EXCEPT ![p] = "import"]
    /\ res' = [res EXCEPT ![p] = DbPath]
    /\ idx' = [idx EXCEPT ![p] = 0]
    /\ tripped' = [tripped EXCEPT ![p] = <<>>]
    /\ outcome' = [outcome EXCEPT ![p] = "running"]
    /\ started' = started + 1
    /\ pc' = [pc EXCEPT ![p] = "acquire"]
    /\ UNCHANGED <<store, cache, marker, fd, serial>>

\* _db_optimize up to the lock.
StartOptimize(p) ==
    /\ pc[p] = "idle"
    /\ started < MaxOps
    /\ op' = [op EXCEPT ![p] = "optimize"]
    /\ res' = [res EXCEPT ![p] = DbPath]
    /\ files' = [files EXCEPT ![p] = <<>>]
    /\ idx' = [idx EXCEPT ![p] = 0]
    /\ force' = [force EXCEPT ![p] = FALSE]
    /\ temp' = [temp EXCEPT ![p] = EmptyDb]
    /\ snap' = [snap EXCEPT ![p] = store]
    /\ tripped' = [tripped EXCEPT ![p] = <<>>]
    /\ outcome' = [outcome EXCEPT ![p] = "running"]
    /\ started' = started + 1
    /\ pc' = [pc EXCEPT ![p] = "acquire"]
    /\ UNCHANGED <<store, cache, marker, fd, serial, forced>>

\* _cache_clear up to the first lock: the cache files of one module are listed.
StartClear(p, pool) ==
    /\ pc[p] = "idle"
    /\ started < MaxOps
    /\ \E m \in ModulesOf(pool) :
        /\ get_all_cache_files(m) # <<>>
        /\ files' = [files EXCEPT ![p] = get_all_cache_files(m)]
        /\ res' = [res EXCEPT ![p] = get_all_cache_files(m)[1]]
    /\ op' = [op EXCEPT ![p] = "clear"]
    /\ idx' = [idx EXCEPT ![p] = 0]
    /\ force' = [force EXCEPT ![p] = FALSE]
    /\ temp' = [temp EXCEPT ![p] = EmptyDb]
    /\ snap' = [snap EXCEPT ![p] = store]
    /\ tripped' = [tripped EXCEPT ![p] = <<>>]
    /\ outcome' = [outcome EXCEPT ![p] = "running"]
    /\ started' = started + 1
    /\ pc' = [pc EXCEPT ![p] = "acquire"]
    /\ UNCHANGED <<store, cache, marker, fd, serial, forced>>

\* _write_file up to the lock: the lock object of the file is made.
StartWrite(p, pool) ==
    /\ pc[p] = "idle"
    /\ started < MaxOps
    /\ \E f \in pool : res' = [res EXCEPT ![p] = f]
    /\ op' = [op EXCEPT ![p] = "write"]
    /\ files' = [files EXCEPT ![p] = <<>>]
    /\ idx' = [idx EXCEPT ![p] = 0]
    /\ force' = [force EXCEPT ![p] = FALSE]
    /\ temp' = [temp EXCEPT ![p] = EmptyDb]
    /\ snap' = [snap EXCEPT ![p] = store]
    /\ tripped' = [tripped EXCEPT ![p] = <<>>]
    /\ outcome' = [outcome EXCEPT ![p] = "running"]
    /\ started' = started + 1
    /\ pc' = [pc EXCEPT ![p] = "acquire"]
    /\ UNCHANGED <<store, cache, marker, fd, serial, forced>>

\* One successful poll of FileLock.acquire: the marker is opened (and created
\* when it is absent) and its inode is flocked, which succeeds when no process
\* holds the flock of that inode.
Acquire(p) ==
    /\ pc[p] = "acquire"
    /\ LinkedHolders(res[p]) = {}
    /\ marker' = [marker EXCEPT ![res[p]] = TRUE]
    /\ fd' = [fd EXCEPT ![p] = "linked"]
    /\ pc' = [pc EXCEPT ![p] = "locked"]
    /\ UNCHANGED <<store, cache, op, files, idx, force, temp, res, outcome, snap,
                   tripped, started, serial, forced>>

\* A timeout handler that reports the timeout and then runs the body of the
\* with block all the same.
AcquireTimeout_FallThrough(p) ==
    /\ pc[p] = "acquire"
    /\ LinkedHolders(res[p]) # {}
    /\ outcome' = [outcome EXCEPT ![p] = "busy"]
    /\ pc' = [pc EXCEPT ![p] = "locked"]
    /\ UNCHANGED <<store, cache, marker, op, files, idx, force, temp, res, fd, snap,
                   tripped, started, serial, forced>>

\* FileLock.acquire raises Timeout: lock_timeout seconds of polls have failed.
\* The handler reports it and control passes to the finally clause.
AcquireTimeout(p) ==
    /\ pc[p] = "acquire"
    /\ LinkedHolders(res[p]) # {}
    /\ outcome' = [outcome EXCEPT ![p] = "busy"]
    /\ pc' = [pc EXCEPT ![p] = "release"]
    /\ UNCHANGED <<store, cache, marker, op, files, idx, force, temp, res, fd, snap,
                   tripped, started, serial, forced>>

\* An import that writes every file it merges through to the database.
ImportStep_InPlace(p) ==
    /\ pc[p] = "locked"
    /\ op[p] = "import"
    /\ idx[p] < Len(files[p])
    /\ files[p][idx[p] + 1] \in cache
    /\ LET r == import_file(temp[p], files[p][idx[p] + 1], force[p])
       IN  /\ r.result # "error"
           /\ temp' = [temp EXCEPT ![p] = r.db]
           /\ store' = r.db
           /\ idx' = [idx EXCEPT ![p] = @ + 1]
           /\ tripped' = [tripped EXCEPT ![p] = Append(@, r.result)]
    /\ UNCHANGED <<cache, marker, op, files, force, res, fd, snap, started,
                   serial, forced, outcome, pc>>

\* One pass of the loop of _cache_import: self._import_file(temp_db_conn, f,
\* args.force).  A file that is gone (FileNotFoundError) or an exception that
\* _import_file does not catch leaves the with block.
ImportStep(p) ==
    /\ pc[p] = "locked"
    /\ op[p] = "import"
    /\ idx[p] < Len(files[p])
    /\ LET f == files[p][idx[p] + 1]
           r == import_file(temp[p], f, force[p])
       IN  IF f \notin cache
           THEN /\ outcome' = [outcome EXCEPT ![p] = "fatal"]
                /\ pc' = [pc EXCEPT ![p] = "unlock"]
                /\ tripped' = [tripped EXCEPT ![p] = Append(@, "missing")]
                /\ UNCHANGED <<temp, idx>>
           ELSE IF r.result = "error"
           THEN /\ outcome' = [outcome EXCEPT ![p] = "fatal"]
                /\ pc' = [pc EXCEPT ![p] = "unlock"]
                /\ temp' = [temp EXCEPT ![p] = r.db]
                /\ tripped' = [tripped EXCEPT ![p] = Append(@, r.result)]
                /\ UNCHANGED idx
           ELSE /\ temp' = [temp EXCEPT ![p] = r.db]
                /\ idx' = [idx EXCEPT ![p] = @ + 1]
                /\ tripped' = [tripped EXCEPT ![p] = Append(@, r.result)]
                /\ UNCHANGED <<outcome, pc>>
    /\ UNCHANGED <<store, cache, marker, op, files, force, res, fd, snap, started,
                   serial, forced>>

\* temp_db_conn.backup(db_conn): the private copy replaces the database.
Commit(p) ==
    /\ pc[p] = "locked"
    /\ op[p] = "import"
    /\ idx[p] = Len(files[p])
    /\ store' = temp[p]
    /\ serial' = ImportBatch(serial, files[p], force[p])
    /\ outcome' = [outcome EXCEPT ![p] = "committed"]
    /\ pc' = [pc EXCEPT ![p] = "unlock"]
    /\ UNCHANGED <<cache, marker, op, files, idx, force, temp, res, fd, snap,
                   tripped, started, forced>>

\* The body of _db_optimize under the lock: the shadow tables are optimized
\* and the file is vacuumed; no table, column or row changes.
Vacuum(p) ==
    /\ pc[p] = "locked"
    /\ op[p] = "optimize"
    /\ outcome' = [outcome EXCEPT ![p] = "optimized"]
    /\ pc' = [pc EXCEPT ![p] = "unlock"]
    /\ UNCHANGED <<store, cache, marker, op, files, idx, force, temp, res, fd, snap,
                   tripped, started, serial, forced>>

\* The body of the loop of _cache_clear under the lock: os.remove(f), which
\* raises FileNotFoundError when the file is gone.
RemoveCacheFile(p) ==
    /\ pc[p] = "locked"
    /\ op[p] = "clear"
    /\ IF res[p] \in cache
       THEN /\ cache' = cache \ {res[p]}
            /\ outcome' = [outcome EXCEPT ![p] = "cleared"]
       ELSE /\ outcome' = [outcome EXCEPT ![p] = "fatal"]
            /\ UNCHANGED cache
    /\ pc' = [pc EXCEPT ![p] = "unlock"]
    /\ UNCHANGED <<store, marker, op, files, idx, force, temp, res, fd, snap,
                   tripped, started, serial, forced>>

\* The body of _write_file under the lock: the file is opened for writing,
\* which creates it when it is absent, and the data is written.
WriteFile(p) ==
    /\ pc[p] = "locked"
    /\ op[p] = "write"
    /\ cache' = cache \cup {res[p]}
    /\ outcome' = [outcome EXCEPT ![p] = "written"]
    /\ pc' = [pc EXCEPT ![p] = "unlock"]
    /\ UNCHANGED <<store, marker, op, files, idx, force, temp, res, fd, snap,
                   tripped, started, serial, forced>>

\* A with block that keeps the lock when an exception leaves it.
Unlock_UnlessFatal(p) ==
    /\ pc[p] = "unlock"
    /\ fd' = [fd EXCEPT ![p] = IF outcome[p] = "fatal" THEN @ ELSE "none"]
    /\ pc' = [pc EXCEPT ![p] = "release"]
    /\ UNCHANGED <<store, cache, marker, op, files, idx, force, temp, res, outcome,
                   snap, tripped, started, serial, forced>>

\* A cache clear that keeps the lock of a file while it goes on to the next.
Unlock_AfterLastFile(p) ==
    /\ pc[p] = "unlock"
    /\ fd' = [fd EXCEPT ![p] = IF op[p] = "clear" /\ idx[p] + 1 < Len(files[p])
                                THEN @ ELSE "none"]
    /\ pc' = [pc EXCEPT ![p] = "release"]
    /\ UNCHANGED <<store, cache, marker, op, files, idx, force, temp, res, outcome,
                   snap, tripped, started, serial, forced>>

\* Leaving the with block: FileLock.release() unlocks and closes the marker.
Unlock(p) ==
    /\ pc[p] = "unlock"
    /\ fd' = [fd EXCEPT ![p] = "none"]
    /\ pc' = [pc EXCEPT ![p] = "release"]
    /\ UNCHANGED <<store, cache, marker, op, files, idx, force, temp, res, outcome,
                   snap, tripped, started, serial, forced>>

\* The finally clause, _release_file_lock(lock): lock.release() finds nothing
\* held, and the marker file is removed when it exists, whoever has it open.
\* _cache_clear then goes on to its next file unless an exception is in flight;
\* otherwise the command is over and the process is as it was before it.
release_file_lock(p) ==
    /\ pc[p] = "release"
    /\ marker' = [marker EXCEPT ![res[p]] = FALSE]
    /\ fd' = [q \in Procs |->
                IF marker[res[p]] /\ res[q] = res[p] /\ fd[q] = "linked"
                THEN "orphan" ELSE fd[q]]
    /\ IF op[p] = "clear" /\ outcome[p] # "fatal" /\ idx[p] + 1 < Len(files[p])
       THEN /\ idx' = [idx EXCEPT ![p] = @ + 1]
            /\ res' = [res EXCEPT ![p] = files[p][idx[p] + 2]]
            /\ pc' = [pc EXCEPT ![p] = "acquire"]
            /\ UNCHANGED <<op, files, force, temp, outcome, snap, tripped>>
       ELSE /\ pc' = [pc EXCEPT ![p] = "idle"]
            /\ op' = [op EXCEPT ![p] = "none"]
            /\ files' = [files EXCEPT ![p] = <<>>]
            /\ idx' = [idx EXCEPT ![p] = 0]
            /\ force' = [force EXCEPT ![p] = FALSE]
            /\ temp' = [temp EXCEPT ![p] = EmptyDb]
            /\ res' = [res EXCEPT ![p] = DbPath]
            /\ outcome' = [outcome EXCEPT ![p] = "none"]
            /\ snap' = [snap EXCEPT ![p] = EmptyDb]
            /\ tripped' = [tripped EXCEPT ![p] = <<>>]
    /\ UNCHANGED <<store, cache, started, serial, forced>>

\* A search that starts only when no lock marker of the database is there.
SearchBegin_Locked(a) ==
    /\ ~marker[DbPath]
    /\ rpc \in {"idle", "done"}
    /\ searches < MaxSearches
    /\ searches' = searches + 1
    /\ rargs' = a
    /\ rlog' = <<Met>>
    /\ rtotal' = 0
    /\ rfiltered' = 0
    /\ rquery' = NoQuery
    /\ rcols' = CheckColumns(store, a.table, a.columns).columns
    /\ IF CheckColumns(store, a.table, a.columns).error = "none"
       THEN rpc' = "count" /\ rres' = NoResult
       ELSE rpc' = "done" /\ rres' = Result(CheckColumns(store, a.table, a.columns).error, 0, 0, <<>>)
    /\ UNCHANGED <<wvars, web, call>>

\* search_table up to the count: the table and the columns are checked.
SearchBegin(a) ==
    /\ rpc \in {"idle", "done"}
    /\ searches < MaxSearches
    /\ searches' = searches + 1
    /\ rargs' = a
    /\ rlog' = <<Met>>
    /\ rtotal' = 0
    /\ rfiltered' = 0
    /\ rquery' = NoQuery
    /\ LET c == CheckColumns(store, a.table, a.columns)
       IN  /\ rcols' = c.columns
           /\ IF c.error = "none"
              THEN rpc' = "count" /\ rres' = NoResult
              ELSE rpc' = "done" /\ rres' = Result(c.error, 0, 0, <<>>)
    /\ UNCHANGED <<wvars, web, call>>

\* total_count = self.db.table(table).count, and the query is normalized;
\* without a query filtered_count is total_count.
SearchCount ==
    /\ rpc = "count"
    /\ rlog' = Append(rlog, Met)
    /\ rquery' = NormalQuery(rargs.query)
    /\ LET c == TotalCount(store, rargs.table)
       IN  /\ rtotal' = c.n
           /\ rfiltered' = IF rquery' = NoQuery THEN c.n ELSE 0
           /\ IF c.error # "none"
              THEN rpc' = "done" /\ rres' = Result(c.error, 0, 0, <<>>)
              ELSE /\ rpc' = IF rquery' = NoQuery THEN "select" ELSE "filter"
                   /\ UNCHANGED rres
    /\ UNCHANGED <<wvars, rargs, rcols, searches, web, call>>

\* The count of the matching rows, made when there is a query.
SearchFilter ==
    /\ rpc = "filter"
    /\ rlog' = Append(rlog, Met)
    /\ LET c == FilteredCount(store, rargs.table, rcols, rquery)
       IN  /\ rfiltered' = c.n
           /\ IF c.error # "none"
              THEN rpc' = "done" /\ rres' = Result(c.error, 0, 0, <<>>)
              ELSE rpc' = "select" /\ UNCHANGED rres
    /\ UNCHANGED <<wvars, rargs, rcols, rquery, rtotal, searches, web, call>>

\* The select of the page and the return.
SearchSelect ==
    /\ rpc = "select"
    /\ rlog' = Append(rlog, Met)
    /\ \E r \in SelectPage(store, rargs.table, rcols, rquery, rargs.order,
                           rargs.direction, rargs.limit, rargs.offset) :
          rres' = IF r.error # "none" THEN Result(r.error, 0, 0, <<>>)
                  ELSE Result("none", rtotal, rfiltered, r.rows)
    /\ rpc' = "done"
    /\ UNCHANGED <<wvars, rargs, rcols, rquery, rtotal, rfiltered, searches, web, call>>

\* One request to global_search: the handler reads the database and answers,
\* or an exception leaves it.
WebRequest(r) ==
    /\ searches < MaxSearches
    /\ searches' = searches + 1
    /\ \E response \in global_search(store, r) :
          web' = [request |-> r, response |-> response]
    /\ UNCHANGED <<wvars, rpc, rargs, rcols, rquery, rtotal, rfiltered, rres, rlog, call>>

\* _run, once the module has returned: the output is validated, and the
\* output that passes is written into a cache file.
run ==
    /\ call.step = "output"
    /\ LET valid == validate_module_response(call.output)
       IN  call' = IF valid = "ok"
                   THEN [call EXCEPT !.step = "written", !.valid = valid,
                                     !.text = json_dumps(call.output)]
                   ELSE [call EXCEPT !.step = "rejected", !.valid = valid]
    /\ UNCHANGED <<wvars, rpc, rargs, rcols, rquery, rtotal, rfiltered, rres, rlog,
                   searches, web>>

\* _import_file reads the cache file and validates what it has read.
LoadCache ==
    /\ call.step = "written"
    /\ LET data == json_load(call.text)
       IN  call' = IF HookRaised(data)
                   THEN [call EXCEPT !.step = "failed", !.valid = "ValueError"]
                   ELSE [call EXCEPT !.step = "loaded", !.loaded = data,
                                     !.valid = validate_module_response(data)]
    /\ UNCHANGED <<wvars, rpc, rargs, rcols, rquery, rtotal, rfiltered, rres, rlog,
                   searches, web>>

\* The files the concurrent specification imports.
ConcFiles == {"m1_1", "m2_1"}

Step(p, pool, forces) ==
    \/ StartImport(p, pool, forces)
    \/ StartOptimize(p)
    \/ StartClear(p, pool)
    \/ Acquire(p)
    \/ AcquireTimeout(p)
    \/ ImportStep(p)
    \/ Commit(p)
    \/ Vacuum(p)
    \/ RemoveCacheFile(p)
    \/ Unlock(p)
    \/ release_file_lock(p)

\* Several processes run commands on one database and one cache directory;
\* no import is forced.
Next == (\E p \in Procs : Step(p, ConcFiles, {FALSE})) /\ UNCHANGED rvars

Spec == Init /\ [][Next]_vars

\* Two cache files of identical bytes.
TwinFiles == {"m1_1", "m1_2"}

\* Several processes run commands over cache files of identical bytes; no
\* import is forced.
TwinNext == (\E p \in Procs : Step(p, TwinFiles, {FALSE})) /\ UNCHANGED rvars

TwinSpec == Init /\ [][TwinNext]_vars

\* The cache files the commands of a process running alone are given.
SeqFiles == {"m1_1", "m1_2", "m2_1", "m3_3", "m4_1"}

\* One process runs one command after the other, forced or not; no lock is
\* ever busy, so no acquisition times out.
SeqNext ==
    /\ \/ started < MaxSeqOps /\ StartImport(1, SeqFiles, BOOLEAN)
       \/ started < MaxSeqOps /\ StartOptimize(1)
       \/ started < MaxSeqOps /\ StartClear(1, SeqFiles)
       \/ Acquire(1)
       \/ ImportStep(1)
       \/ Commit(1)
       \/ Vacuum(1)
       \/ RemoveCacheFile(1)
       \/ Unlock(1)
       \/ release_file_lock(1)
    /\ UNCHANGED rvars

SeqSpec == Init /\ [][SeqNext]_vars

\* Cache files that write table dev with and without a declared primary key
\* and with a column the earlier files lack.
SchemaFiles == {"m1_1", "m1_3", "m2_1", "m5_1"}

\* One process runs one import after the other, forced or not.
SchemaNext ==
    /\ \/ started < MaxSeqOps /\ StartImport(1, SchemaFiles, BOOLEAN)
       \/ Acquire(1)
       \/ ImportStep(1)
       \/ Commit(1)
       \/ Unlock(1)
       \/ release_file_lock(1)
    /\ UNCHANGED rvars

SchemaSpec == Init /\ [][SchemaNext]_vars

\* The files the specification of the readers imports.
ReadFiles == {"m1_1", "m2_1"}

\* The searches the reader makes next to the imports.
ReadArgs ==
    {Args(Dev, NoColumns, q, 1, "ASC", 2, 0) : q \in {NoQuery, Word(2)}}

\* A web worker makes a search of the database while one process imports
\* into it and another optimizes it.
ReadNext ==
    \/ /\ \/ started < MaxSeqOps /\ StartImport(1, ReadFiles, {FALSE})
          \/ started < MaxSeqOps /\ StartOptimize(2)
          \/ \E p \in Procs : \/ Acquire(p)
                               \/ AcquireTimeout(p)
                               \/ ImportStep(p)
                               \/ Commit(p)
                               \/ Vacuum(p)
                               \/ Unlock(p)
                               \/ release_file_lock(p)
       /\ UNCHANGED rvars
    \/ rpc = "idle" /\ \E a \in ReadArgs : SearchBegin(a)
    \/ SearchCount
    \/ SearchFilter
    \/ SearchSelect

ReadSpec == Init /\ [][ReadNext]_vars

\* The files the specification of the searches imports.
SearchFiles == {"m2_1", "m6_1"}

\* The bounds of the limits and the offsets the searches are made with.
MaxLimit == 2
MaxOffset == 2

\* The arguments the searches are made with.
SearchArgs ==
    {Args(table, columns, query, order, direction, limit, offset) :
        table \in {Dev, OpenPorts},
        columns \in {NoColumns, <<"v", "k">>},
        query \in {NoQuery, Word(2)},
        order \in 1..2,
        direction \in {"asc", "DESC"},
        limit \in 0..MaxLimit,
        offset \in 0..MaxOffset}

\* Searches made one at a time once the commands of one process are over.
SearchNext ==
    \/ /\ searches = 0
       /\ \/ started < MaxSeqOps /\ StartImport(1, SearchFiles, BOOLEAN)
          \/ Acquire(1)
          \/ ImportStep(1)
          \/ Commit(1)
          \/ Unlock(1)
          \/ release_file_lock(1)
       /\ UNCHANGED rvars
    \/ pc[1] = "idle" /\ \E a \in SearchArgs : SearchBegin(a)
    \/ SearchCount
    \/ SearchFilter
    \/ SearchSelect

SearchSpec == Init /\ [][SearchNext]_vars

\* The files the specification of the web application imports.
WebFiles == {"m2_1"}

\* The length of the longest blank query of a request.
MaxQueryLen == 4

\* The requests the web application is sent: every combination of a table,
\* a configuration, an order, a direction and a length, with a word as the
\* query or none; and searches of dev with a query of quotes and spaces.
WebRequests ==
    {Request(table, query, order, direction, dir, length, Absent, config) :
        table \in {Absent, Param(Dev), Param(OpenPorts)},
        query \in {Absent, Param(Numeral(2))},
        order \in {Absent} \cup {Param(o) : o \in {<<"1">>, <<"2">>, <<"0">>, <<"-", "1">>,
                                                   <<"3">>, <<"x">>}},
        direction \in {Absent} \cup {Param(d) : d \in {<<"A", "S", "C">>, <<"D", "E", "S", "C">>,
                                                       <<"u", "p">>, <<"1">>}},
        dir \in {Absent, Param(<<"d", "e", "s", "c">>)},
        length \in {Absent, Param(<<"1">>)},
        config \in {NoSection, Section(Dev, <<"v", "k">>), Section(Dev, <<"k", "z">>),
                    Section(Svc, <<>>)}}
    \cup
    {Request(Param(Dev), Param(q), Absent, Absent, Absent, Absent, Absent, NoSection) :
        q \in Batches({Quote, " "}, MaxQueryLen)}

\* The web application answers requests once the commands of one process
\* are over.
WebNext ==
    \/ /\ searches = 0
       /\ \/ started < MaxSeqOps /\ StartImport(1, WebFiles, BOOLEAN)
          \/ Acquire(1)
          \/ ImportStep(1)
          \/ Commit(1)
          \/ Unlock(1)
          \/ release_file_lock(1)
       /\ UNCHANGED rvars
    \/ pc[1] = "idle" /\ \E r \in WebRequests : WebRequest(r)

WebSpec == Init /\ [][WebNext]_vars

\* Cache files that write table dev, one of them with an import_id of its
\* own in its row.
StampFiles == {"m1_1", "m7_1"}

\* Several processes run a few imports of the files, forced or not.
StampNext ==
    /\ \E p \in Procs :
          \/ started < MaxSeqOps /\ StartImport(p, StampFiles, BOOLEAN)
          \/ Acquire(p)
          \/ AcquireTimeout(p)
          \/ ImportStep(p)
          \/ Commit(p)
          \/ Unlock(p)
          \/ release_file_lock(p)
    /\ UNCHANGED rvars

StampSpec == Init /\ [][StampNext]_vars

\* Cache files whose import ends in every way: merged (m1_1), skipped as a
\* duplicate (m1_1 again), stopped by a constraint (m2_1 after m1_1), skipped
\* as invalid (m3_1), stopped by an exception that _import_file does not
\* catch (m4_1) or by a file that a cache clear has removed.
LiveFiles == {"m1_1", "m2_1", "m3_1", "m4_1"}

\* The next statement of the command process p runs.  A process that waits
\* for a lock waits as long as it takes: lock_timeout is longer than the
\* commands of the others.
Run(p) ==
    /\ \/ Acquire(p)
       \/ ImportStep(p)
       \/ Commit(p)
       \/ Vacuum(p)
       \/ RemoveCacheFile(p)
       \/ WriteFile(p)
       \/ Unlock(p)
       \/ release_file_lock(p)
    /\ UNCHANGED rvars

\* Two processes run a few commands: one imports and writes cache files,
\* the other imports, optimizes the database and clears the cache files of
\* the module the first one works with.
LiveNext ==
    \/ /\ started < MaxSeqOps
       /\ \/ StartImport(1, LiveFiles \cap {"m1_1", "m2_1"}, {FALSE})
          \/ StartWrite(1, {"m1_2"})
          \/ StartImport(2, LiveFiles \cap {"m3_1", "m4_1"}, {FALSE})
          \/ StartOptimize(2)
          \/ StartClear(2, {"m1_1"})
       /\ UNCHANGED rvars
    \/ \E p \in Procs : Run(p)

\* Process p is in a command and does not wait for a lock that is held: a
\* step of Run(p) is possible.
CanRun(p) == pc[p] # "idle" /\ (pc[p] = "acquire" => LinkedHolders(res[p]) = {})

\* The steps of Run(p), told by what they change: the command of p moves to
\* its next statement or to the next file of its loop.
Advance(p) ==
    /\ CanRun(p)
    /\ \E next \in {"acquire", "locked", "unlock", "release", "idle"},
          i \in 0..Len(files[p]) :
          /\ <<next, i>> # <<pc[p], idx[p]>>
          /\ pc' = [pc EXCEPT ![p] = next]
          /\ idx' = [idx EXCEPT ![p] = i]

\* The operating system runs every process: a command that can take its next
\* statement takes it.
LiveSpec == Init /\ [][LiveNext]_vars /\ \A p \in Procs : WF_<<pc, idx>>(Advance(p))

\* The number of tables of the longest candidate output.
MaxTables == 2

\* The table entries of the candidate outputs.
CandidateEntries ==
    {NotAnEntry(name) : name \in {Dev, Imports}}
    \cup {Entry(name, pk, rows) :
            name \in {Dev, Imports},
            pk \in {PkAbsent, PkStr("k"), PkOther},
            rows \in {RowsAbsent, RowsOther, RowList(<<>>), RowList(<<RowItem(Row11)>>),
                      RowList(<<RowItem(Row11), NotARow>>)}}

\* The candidate outputs of every shape.
Candidates ==
    {DataNone, DataOther, DataNoTables, DataTablesOther}
    \cup {Data(items) : items \in Batches(CandidateEntries, MaxTables)}

\* The dates, the date-times and the strings of the valid outputs: among the
\* strings the ISO form of every date and date-time.
CacheDates ==
    {v \in {DateV(y, m, d) : y \in {2020, 2021}, m \in {1, 2, 12}, d \in {1, 29, 31}} :
        v[4] <= DaysIn(v[2], v[3])}

CacheDateTimes ==
    {DateTimeV(2020, 2, d, h, mi, sec) :
        d \in {1, 29}, h \in {0, 23}, mi \in {0, 59}, sec \in {0, 5}}

CacheStrings ==
    {isoformat(v) : v \in CacheDates \cup CacheDateTimes}
    \cup {<<>>, <<"2">>, <<"2", "0", "2", "0">>, <<"a", "b", "c">>,
          <<"2", "0", "2", "0", "-", "0", "1">>,
          <<"2", "0", "2", "0", "-", "1", "3", "-", "4", "5">>,
          <<"2", "0", "2", "1", "-", "0", "2", "-", "2", "9">>,
          <<"2", "0", "2", "0", "-", "0", "1", "-", "0", "2", "T", "0", "3", ":", "0", "4">>,
          <<"2", "0", "2", "0", "-", "0", "1", "-", "0", "2", "T", "2", "4", ":", "0", "4">>,
          <<"2", "0", "2", "0", "-", "0", "1", "-", "0", "2", " ", "0", "3", ":", "0", "4",
            ":", "0", "5">>}

\* The valid outputs: one table, one row, every value once.
ValidOutputs ==
    {Data(<<Entry(Dev, PkStr("k"), RowList(<<RowItem([k |-> IntV(1), v |-> x])>>))>>) :
        x \in {IntV(2)} \cup {CharsV(chars) : chars \in CacheStrings}
                \cup CacheDates \cup CacheDateTimes}

\* A module has returned one of the outputs.
ModuleInit == InitBut /\ call \in {Call(output) : output \in Candidates \cup ValidOutputs}

ModuleNext ==
    \/ run
    \/ LoadCache

ModuleSpec == ModuleInit /\ [][ModuleNext]_vars

(***************************************************************************)
(* Properties.                                                             *)
(***************************************************************************)
\* The row count of every domain table of a database.
RowCounts(db) == [n \in DOMAIN db.tables |-> Len(db.tables[n].rows)]

\* The table set of a database with every table's row count.
Shape(db) == <<db.hasImports, Len(db.imports), RowCounts(db)>>

\* The number of Import Records of a database that carry a content hash.
RecordCount(db, sha1) == Cardinality({i \in 1..Len(db.imports) : db.imports[i].sha1 = sha1})

\* Process p's import has left the with block (or never entered it).
ImportOver(p) == op[p] = "import" /\ pc[p] \in {"unlock", "release"}

\* C1: batch atomicity. When the merge of a file of a batch raised an
\* IntegrityError, the durable store has, once the import is over, the tables
\* and the row counts (imports table included) it had before the import.
C1_BatchAtomic ==
    \A p \in Procs :
        (ImportOver(p) /\ "integrity" \in SeqRange(tripped[p]))
            => Shape(store) = Shape(snap[p])

\* C2: lock contention. Whatever the interleaving of concurrent imports, the
\* durable store is the result of the committed batches applied one after the
\* other, in the order of their commits.
C2_SerialImports == store = serial

\* C3: mutual exclusion per resource. No two processes are inside the
\* lock-protected section of the same resource at once.
C3_MutualExclusion ==
    \A p, q \in Procs :
        (p # q /\ pc[p] = "locked" /\ pc[q] = "locked") => res[p] # res[q]

\* The content hash of a cache file.
ShaOf(f) == Sha1(FileBytes(f))

\* p's import was of the single file f, unforced, and committed, and when it
\* started the store held exactly one Import Record of f's content, made for f.
SecondImportOf(p, f) ==
    /\ ImportOver(p)
    /\ outcome[p] = "committed"
    /\ ~force[p]
    /\ files[p] = <<f>>
    /\ RecordCount(snap[p], ShaOf(f)) = 1
    /\ \E i \in 1..Len(snap[p].imports) : snap[p].imports[i].file = f

\* C4: idempotence. A second, unforced import of a cache file whose first
\* import was committed leaves one Import Record for it and leaves the row
\* count of every domain table as it was.
C4_Idempotent ==
    \A p \in Procs : \A f \in AllFiles :
        SecondImportOf(p, f) =>
            /\ RecordCount(store, ShaOf(f)) = 1
            /\ RowCounts(store) = RowCounts(snap[p])

C4_Witness ==
    \E p \in Procs : \E f \in AllFiles :
        /\ SecondImportOf(p, f)
        /\ \E n \in DOMAIN store.tables : Len(store.tables[n].rows) > 0

\* C5: at-most-once import. As long as no import was forced, the durable
\* store holds at most one Import Record per content hash.
C5_AtMostOnce ==
    ~forced =>
        \A i, j \in 1..Len(store.imports) :
            i # j => store.imports[i].sha1 # store.imports[j].sha1

C5_Witness ==
    /\ ~forced
    /\ \E p, q \in Procs :
        /\ ImportOver(p)
        /\ outcome[p] = "committed"
        /\ files[p] = <<"m1_1", "m1_2">>
        /\ tripped[p] = <<"imported", "skipped">>
        /\ store # snap[p]
        /\ RecordCount(store, ShaOf("m1_1")) = 1
        /\ op[q] = "import"
        /\ files[q] = <<"m1_2">>
        /\ pc[q] = "acquire"

\* C6: Import Records are never deleted or mutated. Every Import Record of
\* the durable store is still in it, with the same values, after every step.
C6_RecordsKept ==
    [][\A i \in 1..Len(store.imports) :
          /\ i <= Len(store'.imports)
          /\ store'.imports[i] = store.imports[i]]_vars

\* C7: a lock timeout leaves the store untouched. An import that could not
\* acquire the lock ends busy with no file merged into its private copy, and
\* no step it takes from the timeout on changes the durable store.
C7_TimeoutUntouched ==
    /\ [](\A p \in Procs :
            (op[p] = "import" /\ outcome[p] = "busy") =>
                /\ pc[p] = "release"
                /\ idx[p] = 0
                /\ tripped[p] = <<>>
                /\ temp[p] = snap[p])
    /\ [][\A p \in Procs :
            (op[p] = "import" /\ outcome'[p] = "busy" /\ pc'[p] # pc[p])
                => store' = store]_vars

C7_Witness ==
    \E p \in Procs :
        /\ op[p] = "import"
        /\ outcome[p] = "busy"
        /\ Len(files[p]) = MaxBatch
        /\ store # snap[p]

\* The payload departs from the record shape of a Module Response: it is no
\* record, its tables are missing, empty or no record, a table entry is no
\* record, its rows are missing, empty, no list or hold an item that is no
\* record, or its pk is present and no string.
BadShape(data) ==
    \/ data.shape # "dict"
    \/ data.tables.shape # "dict"
    \/ data.tables.items = <<>>
    \/ \E i \in 1..Len(data.tables.items) :
         LET e == data.tables.items[i]
         IN  \/ e.shape # "dict"
             \/ e.rows.shape # "list"
             \/ e.rows.items = <<>>
             \/ \E j \in 1..Len(e.rows.items) : e.rows.items[j].shape # "dict"
             \/ e.pk.shape = "other"

\* C8: a validation failure is per file. When a batch holds a file whose
\* payload has not the shape of a Module Response, that file is skipped and
\* reported, nothing is thrown, and the batch is committed.
C8_ValidationPerFile ==
    \A p \in Procs :
        ImportOver(p) =>
            \A i \in 1..Len(files[p]) :
                BadShape(JsonLoad(FileBytes(files[p][i]))) =>
                    /\ outcome[p] = "committed"
                    /\ tripped[p][i] = "invalid"

\* p's import met a file that could not be read, or an exception that
\* _import_file does not catch.
HitFatal(p) == op[p] = "import" /\ SeqRange(tripped[p]) \cap {"missing", "error"} # {}

\* Reading or merging a file of p's batch raised an error that is neither a
\* validation failure nor a duplicate skip.
HitError(p) == HitFatal(p) \/ (op[p] = "import" /\ "integrity" \in SeqRange(tripped[p]))

\* C9: a fatal error aborts the whole batch. Once reading or merging a file
\* of a batch has raised an error that is neither a validation failure nor a
\* duplicate skip, no step of that import changes the durable store.
C9_FatalAborts ==
    [][\A p \in Procs :
          (HitError(p) /\ pc'[p] # pc[p]) => store' = store]_vars

\* C9, for the errors that leave _import_file (a cache file that has
\* disappeared, an exception it does not catch): the import ends fatal,
\* outside the with block, and no step of it changes the durable store.
C9_EscapingErrorAborts ==
    /\ [](\A p \in Procs : HitFatal(p) =>
            /\ outcome[p] = "fatal"
            /\ pc[p] \in {"unlock", "release"})
    /\ [][\A p \in Procs :
            (HitFatal(p)' /\ pc'[p] # pc[p]) => store' = store]_vars

\* An import that has merged a file into its private copy and then met a
\* file it could not read, the durable store being as it was at its start.
C9_EscapingErrorWitness ==
    \E p \in Procs :
        /\ HitFatal(p)
        /\ idx[p] >= 1
        /\ temp[p] # snap[p]
        /\ store = snap[p]

\* The payload names a table imports or a table whose name ends in one of
\* the suffixes of the full-text shadow tables.
HasReservedName(data) ==
    /\ data.shape = "dict"
    /\ data.tables.shape = "dict"
    /\ \E i \in 1..Len(data.tables.items) :
         \/ data.tables.items[i].name = Imports
         \/ EndsInFtsSuffix(data.tables.items[i].name)

\* C10: reserved names are rejected before any store mutation. The import of
\* a file whose payload names a reserved table changes nothing in the
\* database it is merged into.
C10_ReservedRejected ==
    [][\A p \in Procs :
          ( /\ pc[p] = "locked"
            /\ op[p] = "import"
            /\ idx[p] < Len(files[p])
            /\ HasReservedName(JsonLoad(FileBytes(files[p][idx[p] + 1])))
            /\ (idx'[p] # idx[p] \/ pc'[p] # pc[p]) )
          => temp'[p] = temp[p]]_vars

\* Process p's step merges the next file of its batch into its private copy.
Merges(p) ==
    /\ pc[p] = "locked"
    /\ op[p] = "import"
    /\ idx'[p] = idx[p] + 1
    /\ tripped'[p][idx'[p]] = "imported"

\* The table entries of the file process p's import is about to merge.
NextEntries(p) == JsonLoad(FileBytes(files[p][idx[p] + 1])).tables.items

\* The rows of table t whose column c holds the value row r has in it.
KeyMatches(t, c, r) ==
    {i \in 1..Len(t.rows) : t.rows[i][c] = Affinity(t.types[c], r[c])}

\* The row stored at position i of table t has the content of the row r.
HasContent(t, i, r) ==
    \A c \in DOMAIN r : c \in DOMAIN t.rows[i] /\ t.rows[i][c] = Affinity(t.types[c], r[c])

\* C11: upsert by declared primary key. When a merged table entry declares a
\* primary key and one of its rows has the key value of a row stored in the
\* table, then after the merge one row of the table has that key value, it
\* has the new content, and the table has grown by the rows of the entry
\* whose key value was not stored.
C11_UpsertByDeclaredKey ==
    [][\A p \in Procs : Merges(p) =>
          \A n \in 1..Len(NextEntries(p)) :
              LET e    == NextEntries(p)[n]
                  c    == e.pk.col
                  rows == RowsOfEntry(e)
                  tb   == temp[p].tables[e.name]
                  ta   == temp'[p].tables[e.name]
                  hit  == {j \in 1..Len(rows) : KeyMatches(tb, c, rows[j]) # {}}
              IN  (PkTruthy(e.pk) /\ TableExists(temp[p], e.name)
                     /\ c \in SeqRange(tb.cols) /\ hit # {})
                  => /\ \A j \in hit :
                          /\ Cardinality(KeyMatches(ta, c, rows[j])) = 1
                          /\ \A i \in KeyMatches(ta, c, rows[j]) : HasContent(ta, i, rows[j])
                     /\ Len(ta.rows) = Len(tb.rows) + Len(rows) - Cardinality(hit)]_vars

\* C12: append without primary key. When a merged table entry declares no
\* primary key, the table has afterwards the rows it had, unchanged and in
\* place, followed by as many rows as the entry holds.
C12_AppendWithoutKey ==
    [][\A p \in Procs : Merges(p) =>
          \A n \in 1..Len(NextEntries(p)) :
              LET e  == NextEntries(p)[n]
                  tb == temp[p].tables[e.name]
                  ta == temp'[p].tables[e.name]
              IN  (~PkTruthy(e.pk) /\ TableExists(temp[p], e.name))
                  => /\ Len(ta.rows) = Len(tb.rows) + Len(RowsOfEntry(e))
                     /\ \A i \in 1..Len(tb.rows) :
                          \A c \in SeqRange(tb.cols) : ta.rows[i][c] = tb.rows[i][c]]_vars

\* The id of the Import Record the next merge of process p's import makes.
NextImportId(p) == IntV(Len(temp[p].imports) + 1)

\* C13: schema growth. When a merged table entry carries columns the stored
\* table lacks, the table has these columns afterwards, every row of an
\* earlier import reads NULL in them, and every row of the entry that carries
\* such a column is stored with its value in it.
C13_SchemaGrowth ==
    [][\A p \in Procs : Merges(p) =>
          \A n \in 1..Len(NextEntries(p)) :
              LET e     == NextEntries(p)[n]
                  rows  == RowsOfEntry(e)
                  tb    == temp[p].tables[e.name]
                  ta    == temp'[p].tables[e.name]
                  added == KeysOf(rows) \ SeqRange(tb.cols)
              IN  (TableExists(temp[p], e.name) /\ added # {})
                  => /\ added \subseteq SeqRange(ta.cols)
                     /\ \A i \in 1..Len(ta.rows) :
                          ta.rows[i]["import_id"] # NextImportId(p)
                              => \A c \in added : ta.rows[i][c] = NULL
                     /\ \A j \in 1..Len(rows) : \A c \in added \cap DOMAIN rows[j] :
                          \E i \in 1..Len(ta.rows) :
                              /\ ta.rows[i]["import_id"] = NextImportId(p)
                              /\ HasContent(ta, i, rows[j])
                              /\ ta.rows[i][c] # NULL]_vars

\* The durable store holds a table with a column that an earlier import's row
\* reads NULL in and a later import's row has a value in.
C13_Witness ==
    \E n \in DOMAIN store.tables :
        LET t == store.tables[n]
        IN  \E i, j \in 1..Len(t.rows) : \E c \in SeqRange(t.cols) :
                /\ t.rows[i][c] = NULL
                /\ t.rows[j][c] # NULL
                /\ t.rows[i]["import_id"][2] < t.rows[j]["import_id"][2]

\* C14: additive-only schema evolution. No step removes a domain table from
\* the durable store, removes a column from one of its tables or changes the
\* type of a column.
C14_AdditiveSchema ==
    [][\A n \in DOMAIN store.tables :
          /\ n \in DOMAIN store'.tables
          /\ \A c \in SeqRange(store.tables[n].cols) :
                /\ c \in SeqRange(store'.tables[n].cols)
                /\ store'.tables[n].types[c] = store.tables[n].types[c]]_vars

\* The Import Records of a database that name a cache file.
RecordsOfFile(db, f) == {i \in 1..Len(db.imports) : db.imports[i].file = f}

\* C15: an Import Record marks a successful merge. Once an import is
\* committed, the durable store holds no Import Record of a file of the batch
\* whose merge raised an IntegrityError.
C15_RecordMarksSuccess ==
    \A p \in Procs :
        (ImportOver(p) /\ outcome[p] = "committed") =>
            \A i \in 1..Len(files[p]) :
                tripped[p][i] = "integrity" => RecordsOfFile(store, files[p][i]) = {}

\* C18: the full-text index covers every column. The shadow table of every
\* domain table of the durable store covers exactly the table's columns.
C18_FtsCoversColumns ==
    \A n \in DOMAIN store.tables :
        store.tables[n].fts = SeqRange(store.tables[n].cols)

\* C19: lock marker ownership. No step removes the lock marker of a resource
\* while a process other than the one that removes it holds the lock on it.
C19_MarkerOwnership ==
    [][\A r \in Resources :
          (marker[r] /\ ~marker'[r]) => LinkedHolders(r) = {}]_vars

\* C16 as it is stated: readers never observe a partial import. What a search
\* returns is what search_table returns on one of the durable stores its
\* statements met, the store before a batch or the store after it.
C16_OneStore ==
    rpc = "done" => \E i \in 1..Len(rlog) : rres \in SearchTable(rlog[i].db, rargs)

\* C16, amended: every statement of a search reads the durable store of one
\* moment, and the durable store changes only in the step that installs the
\* private copy of an import that has gone through its whole batch; no
\* statement of a search falls inside that step.
C16_WholeBatchReads ==
    [][/\ store' # store =>
            /\ rlog' = rlog
            /\ \E p \in Procs : /\ pc[p] = "locked"
                                /\ op[p] = "import"
                                /\ idx[p] = Len(files[p])
                                /\ store' = temp[p]
       /\ rlog' # rlog =>
            /\ store' = store
            /\ rlog'[Len(rlog')].db = store]_vars

\* A search has run while an import had merged a part of its batch into its
\* private copy, and a later statement of it met the store the commit left.
C16_Witness ==
    /\ rpc = "done"
    /\ rres.error = "none"
    /\ \E i, j \in 1..Len(rlog) :
          i < j /\ rlog[i].staged # {} /\ rlog[j].db # rlog[i].db

\* C17: search is lock-free. No step of a search changes a lock marker, the
\* lock a process holds or the position of a process, and the next step of
\* a search can be taken in every state, whoever holds or waits for a lock.
C17_SearchLockFree ==
    /\ [][rvars' # rvars => marker' = marker /\ fd' = fd /\ pc' = pc]_vars
    /\ [](/\ (rpc = "idle" /\ searches < MaxSearches) =>
                \A a \in ReadArgs : ENABLED SearchBegin(a)
          /\ rpc = "count" => ENABLED SearchCount
          /\ rpc = "filter" => ENABLED SearchFilter
          /\ rpc = "select" => ENABLED SearchSelect)

\* A search has returned rows, and each of its statements ran while a process
\* held a lock and another waited for one.
C17_Witness ==
    /\ rpc = "done"
    /\ rres.error = "none"
    /\ Len(rlog) >= 3
    /\ \A i \in 1..Len(rlog) : rlog[i].held # {} /\ rlog[i].waiting # {}

Min(a, b) == IF a < b THEN a ELSE b

Max(a, b) == IF a < b THEN b ELSE a

\* A finished search with no query, a limit > 0, an offset >= 0 and an order
\* that numbers a column, of a table of the database its statements met, has
\* returned the counts and the page of the sorted table.
ReturnsSortedPage(tables) ==
    LET db == rlog[1].db
    IN  (/\ rpc = "done"
         /\ rargs.table \in tables
         /\ rargs.query = NoQuery
         /\ rargs.limit > 0
         /\ rargs.offset >= 0
         /\ CheckColumns(db, rargs.table, rargs.columns).error = "none"
         /\ rargs.order \in 1..Len(rcols))
        => LET t     == db.tables[rargs.table]
               total == Len(t.rows)
               n     == Min(rargs.limit, Max(0, total - rargs.offset))
               down  == rargs.direction \in {"DESC", "desc"}
           IN  /\ rres.error = "none"
               /\ rres.total = total
               /\ rres.filtered = rres.total
               /\ Len(rres.rows) = n
               /\ \E sorted \in OrderedBy(t, 1..total, rcols[rargs.order],
                                          IF down THEN "DESC" ELSE "ASC") :
                     \A i \in 1..n :
                         rres.rows[i] = Restrict(sorted[rargs.offset + i], rcols)

\* C20: search without a query. For every existing table, limit > 0 and
\* offset >= 0, a search with no query returns the row count of the table as
\* totalCount and as filteredCount, and min(limit, max(0, totalCount -
\* offset)) rows: those at offset+1 .. offset+limit of the table sorted by
\* the column the order numbers, in the given direction.
C20_SearchWithoutQuery == ReturnsSortedPage({Dev, OpenPorts})

\* C20 for the tables with a name SQLite reads as one identifier.
C20_PlainNames == ReturnsSortedPage({Dev})

\* A search with no query has returned the second and last row of a table.
C20_PlainNamesWitness ==
    /\ rpc = "done"
    /\ rargs.query = NoQuery
    /\ rargs.offset = 1
    /\ rargs.limit = 2
    /\ rres.error = "none"
    /\ rres.total = 2
    /\ Len(rres.rows) = 1

\* A finished search with a query, a limit > 0, an offset >= 0 and an order
\* that numbers a column, of a table of the database its statements met, has
\* returned the two counts and at most limit matching rows, each restricted
\* to the requested columns.
ReturnsMatchingRows(tables) ==
    LET db == rlog[1].db
    IN  (/\ rpc = "done"
         /\ rargs.table \in tables
         /\ NormalQuery(rargs.query) # NoQuery
         /\ rargs.limit > 0
         /\ rargs.offset >= 0
         /\ CheckColumns(db, rargs.table, rargs.columns).error = "none"
         /\ rargs.order \in 1..Len(rcols))
        => LET t       == db.tables[rargs.table]
               matches == Matching(t, rcols, NormalQuery(rargs.query))
           IN  /\ rres.error = "none"
               /\ rres.total = Len(t.rows)
               /\ rres.filtered = Cardinality(matches)
               /\ rres.filtered <= rres.total
               /\ Len(rres.rows) <= rargs.limit
               /\ \A i \in 1..Len(rres.rows) :
                     /\ DOMAIN rres.rows[i] = SeqRange(rcols)
                     /\ \E j \in matches : rres.rows[i] = Restrict(t.rows[j], rcols)

\* C21: search with a query. For every existing table and non-empty
\* normalized query, totalCount is the row count of the table, filteredCount
\* is the number of rows that satisfy the full-text predicate, and every
\* returned row is a matching row restricted to exactly the requested
\* columns, with at most limit rows returned.
C21_SearchWithQuery == ReturnsMatchingRows({Dev, OpenPorts})

\* C21 for the tables with a name SQLite reads as one identifier.
C21_PlainNames == ReturnsMatchingRows({Dev})

\* A search with a query has returned fewer rows than the table has.
C21_PlainNamesWitness ==
    /\ rpc = "done"
    /\ rargs.query # NoQuery
    /\ rargs.limit > 0
    /\ rres.error = "none"
    /\ rres.total = 2
    /\ rres.filtered = 1
    /\ Len(rres.rows) = 1

\* The request of the state asks for an existing table under a configuration
\* that lists it, with a length and a start that are numbers or absent.
WellFormedBut(fields) ==
    LET r == web.request
    IN  /\ r # <<>>
        /\ "table" \in fields \/ (~IsNone(r.table) /\ TableExists(store, r.table.chars))
        /\ ~r.config.section \/ (~IsNone(r.table) /\ r.table.chars \in DOMAIN r.config.tables)
        /\ "order" \in fields \/ IsNone(r.order) \/ ParseInt(r.order.chars).error = "none"
        /\ "direction" \in fields \/ IsNone(r.direction)
        /\ IsNone(r.length) \/ ParseInt(r.length.chars).error = "none"
        /\ IsNone(r.start) \/ ParseInt(r.start.chars).error = "none"

\* The request names a table the database lacks, a column the table lacks,
\* or an order that is no number from 1 to the number of requested columns.
NamesMissing ==
    LET r       == web.request
        there   == ~IsNone(r.table) /\ TableExists(store, r.table.chars)
        columns == ConfiguredColumns(store, r.config, r.table.chars).columns
    IN  \/ ~IsNone(r.table) /\ ~TableExists(store, r.table.chars)
        \/ there /\ ~(SeqRange(columns) \subseteq SeqRange(store.tables[r.table.chars].cols))
        \/ there /\ ~IsNone(r.order)
                 /\ \/ ParseInt(r.order.chars).error # "none"
                    \/ ParseInt(r.order.chars).n \notin 1..Len(columns)

\* C22: search failures are structured errors, never crashes. A request
\* that names a missing table, a missing column or a malformed order index
\* (no number, zero, negative, larger than the number of requested columns)
\* is answered with the empty result, both counts 0 and an error string; no
\* exception leaves the handler.
C22_StructuredErrors ==
    (WellFormedBut({"table", "order"}) /\ NamesMissing) => web.response = ErrorResponse

\* C22 for the orders that are numerals.
C22_NumericOrders ==
    (/\ WellFormedBut({"table", "order"})
     /\ NamesMissing
     /\ IsNone(web.request.order) \/ ParseInt(web.request.order.chars).error = "none")
    => web.response = ErrorResponse

\* An order larger than the number of columns was answered with the error.
C22_NumericOrdersWitness ==
    /\ WellFormedBut({"order"})
    /\ ~IsNone(web.request.order)
    /\ ParseInt(web.request.order.chars).n = 3
    /\ web.response = ErrorResponse

\* The rows are in the order of the direction by their first column.
SortedBy(rows, c, down) ==
    \A i \in 1..(Len(rows) - 1) :
        IF down THEN ~SqlLess(rows[i][c], rows[i + 1][c])
        ELSE ~SqlLess(rows[i + 1][c], rows[i][c])

\* C23: a bad sort direction is handled like a missing table. A request
\* whose direction is neither ASC nor DESC is answered with the empty result,
\* both counts 0 and an error string; a request whose direction is ASC or DESC
\* is answered with rows sorted in that direction.
C23_Direction ==
    LET r == web.request
    IN  (/\ WellFormedBut({"direction"})
         /\ ~IsNone(r.direction)
         /\ IsNone(r.order)
         /\ ~r.config.section)
        => IF r.direction.chars \in {<<"A", "S", "C">>, <<"D", "E", "S", "C">>}
           THEN /\ web.response.escaped = "none"
                /\ ~web.response.error
                /\ SortedBy(web.response.rows, store.tables[r.table.chars].cols[1],
                            r.direction.chars = <<"D", "E", "S", "C">>)
           ELSE web.response = ErrorResponse

\* The query of the request is a string of spaces only, or of quotes only.
BlankQuery ==
    /\ web.request # <<>>
    /\ web.request.query.given
    /\ \/ SeqRange(web.request.query.chars) \subseteq {" "}
       \/ SeqRange(web.request.query.chars) \subseteq {Quote}

\* C24: an empty or whitespace-only query, and a query of quote characters
\* only, normalizes to "no filter": the search returns what the search with
\* no query returns, filteredCount equal to totalCount.
C24_BlankQuery ==
    (BlankQuery /\ WellFormedBut({}))
    => /\ web.response \in global_search(store, [web.request EXCEPT !.query = Absent])
       /\ web.response.filtered = web.response.total

\* C24 for the queries of spaces only.
C24_Whitespace ==
    (BlankQuery /\ WellFormedBut({}) /\ Quote \notin SeqRange(web.request.query.chars))
    => /\ web.response \in global_search(store, [web.request EXCEPT !.query = Absent])
       /\ web.response.filtered = web.response.total

\* A query of spaces was answered with every row of the table.
C24_WhitespaceWitness ==
    /\ BlankQuery
    /\ web.request.query.chars = <<" ", " ">>
    /\ ~web.response.error
    /\ web.response.total = 2
    /\ Len(web.response.rows) = 2

\* C25: the Response Validator is total. For every candidate value (absent,
\* no record, tables missing, empty or no record, a table entry that is no
\* record, rows missing, empty or no sequence, a row that is no record, a pk
\* of any type) the validator ends with success or with the validation
\* failure; it never ends with any other kind of error, and it leaves its
\* input as it was.
C25_ValidatorTotal ==
    call.step \in {"written", "rejected"} => call.valid \in {"ok", "AssertionError"}

\* C25 for the candidates whose table entries are all records.
C25_RecordEntries ==
    (/\ call.step \in {"written", "rejected"}
     /\ call.output.shape = "dict" =>
            \A i \in 1..Len(call.output.tables.items) :
                call.output.tables.items[i].shape = "dict")
    => call.valid \in {"ok", "AssertionError"}

\* A candidate whose second table has a row that is no record was rejected.
C25_RecordEntriesWitness ==
    /\ call.step = "rejected"
    /\ call.output.shape = "dict"
    /\ Len(call.output.tables.items) = 2
    /\ call.output.tables.items[2].rows = RowList(<<RowItem(Row11), NotARow>>)
    /\ call.valid = "AssertionError"

\* C26: cache-file round trip. Serializing a valid Module Response to a
\* cache file and deserializing it again yields a Module Response equal to
\* the original: dates and date-times come back as the same values, strings
\* as the same strings.
C26_RoundTrip ==
    call.step = "loaded" => call.loaded = call.output

\* The value of column v of the only row of a valid output.
TheValue(data) == data.tables.items[1].rows.items[1].row.v

\* C26 for the outputs whose values are no strings.
C26_DatesRoundTrip ==
    (call.step = "loaded" /\ TheValue(call.output)[1] # "chars")
    => call.loaded = call.output

\* A date-time went into a cache file and came back.
C26_DatesRoundTripWitness ==
    /\ call.step = "loaded"
    /\ TheValue(call.output) = DateTimeV(2020, 2, 29, 23, 59, 5)
    /\ TheValue(call.loaded) = DateTimeV(2020, 2, 29, 23, 59, 5)

\* C27: the private copy is staged from the store as locked. For every
\* import that commits, no other import commits to the store between the
\* moment the import copies the store into its private copy and the moment
\* it copies the private copy back: at the commit the store is still the one
\* that was copied, so no committed change is discarded.
C27_StagedUnderLock ==
    [][\A p \in Procs :
          (pc[p] = "locked" /\ outcome'[p] = "committed" /\ outcome[p] # "committed")
          => store = snap[p]]_vars

\* The row of a table of a database was written by the file of the Import
\* Record its import_id names: the record is in the database, and the file
\* holds a row for that table with the values the stored row has.
StampedBy(db, name, stored) ==
    \E j \in 1..Len(db.imports) :
        /\ stored["import_id"] = IntV(db.imports[j].id)
        /\ \E e \in SeqRange(JsonLoad(FileBytes(db.imports[j].file)).tables.items) :
              /\ e.name = name
              /\ \E i \in 1..Len(e.rows.items) :
                    \A c \in DOMAIN e.rows.items[i].row \ {"import_id"} :
                        stored[c] = Affinity(db.tables[name].types[c], e.rows.items[i].row[c])

\* C28: referential integrity of import_id. In every reachable state of the
\* durable store, every row of every domain table has an import_id equal to
\* the id of an Import Record of the same store, the record of the file that
\* inserted or last replaced the row; an import_id that the module supplied
\* in the row is overwritten.
C28_ReferentialIntegrity ==
    \A name \in DOMAIN store.tables :
        \A i \in 1..Len(store.tables[name].rows) :
            StampedBy(store, name, store.tables[name].rows[i])

\* The store holds the row whose file supplied import_id 9, under the id of
\* the record of that file, next to a row of another file.
C28_Witness ==
    /\ TableExists(store, Dev)
    /\ \E i, j \in 1..Len(store.tables[Dev].rows) :
          /\ store.tables[Dev].rows[i]["k"] = IntV(3)
          /\ store.tables[Dev].rows[i]["import_id"] # IntV(9)
          /\ store.tables[Dev].rows[j]["k"] = IntV(1)
          /\ store.tables[Dev].rows[j]["import_id"] # store.tables[Dev].rows[i]["import_id"]
    /\ \E j \in 1..Len(store.imports) : store.imports[j].file = "m7_1"

\* C29: the lock is always released. Every import, optimize, cache clear and
\* cache write that acquires a lock releases it on every exit path (success,
\* duplicate skip, validation skip, constraint violation, uncaught fatal
\* error), so a process that waits for the same resource, and waits long
\* enough, acquires it.
C29_LockReleased ==
    \A p \in Procs :
        /\ (fd[p] # "none") ~> (fd[p] = "none")
        /\ (pc[p] = "acquire") ~> (pc[p] = "locked")

\* An import that an exception left has released its lock, and the other
\* process waits for that lock.
C29_Witness ==
    \E p, q \in Procs :
        /\ p # q
        /\ op[p] = "import"
        /\ outcome[p] = "fatal"
        /\ pc[p] = "release"
        /\ fd[p] = "none"
        /\ pc[q] = "acquire"
        /\ res[q] = res[p]

\* C30: no deadlock. No operation holds the lock of one resource while it
\* waits for the lock of another (import and optimize hold only the database
\* lock; cache clear and cache write acquire and release one cache-file lock
\* at a time), so no set of concurrently running operations blocks one
\* another forever: every command that has started comes to its end.
C30_NoDeadlock ==
    /\ [](\A p \in Procs : pc[p] = "acquire" => fd[p] = "none")
    /\ \A p \in Procs : (pc[p] # "idle") ~> (pc[p] = "idle")

\* A cache clear waits for the lock of its second file, holding none, while
\* the other process holds that lock.
C30_Witness ==
    \E p, q \in Procs :
        /\ p # q
        /\ op[p] = "clear"
        /\ idx[p] = 1
        /\ pc[p] = "acquire"
        /\ fd[p] = "none"
        /\ res[q] = res[p]
        /\ fd[q] = "linked"

\* Process p's step installs the private copy of its import in the database.
Commits(p) ==
    /\ pc[p] = "locked"
    /\ op[p] = "import"
    /\ outcome[p] # "committed"
    /\ outcome'[p] = "committed"

\* The table entries of a cache file.
EntriesOf(f) == JsonLoad(FileBytes(f)).tables.items

\* The id of the newest Import Record of database db that names the file f.
LastImportId(db, f) ==
    LET last == CHOOSE i \in RecordsOfFile(db, f) : \A j \in RecordsOfFile(db, f) : j <= i
    IN  IntV(db.imports[last].id)

\* The values that the rows a file holds for the table named name have in
\* the primary key of the stored table t, as the column stores them.
FileKeys(t, name, entries) ==
    IF t.pk = NoPk THEN {}
    ELSE UNION { {Affinity(t.types[t.pk], r[t.pk]) :
                     r \in {x \in SeqRange(RowsOfEntry(entries[n])) : t.pk \in DOMAIN x}} :
                 n \in {m \in 1..Len(entries) : entries[m].name = name} }

\* For every key value that a row of file f and a row of file g carry for the
\* same table of database db, a table with a primary key, and that no file
\* of after carries: db holds the row of g stamped with the import_id of g,
\* and both files have an Import Record.
LaterWins(db, f, g, after) ==
    \A name \in DOMAIN db.tables :
        LET t       == db.tables[name]
            keys(h) == FileKeys(t, name, EntriesOf(h))
        IN  \A v \in (keys(f) \cap keys(g)) \ UNION {keys(h) : h \in after} :
                /\ RecordsOfFile(db, f) # {}
                /\ RecordsOfFile(db, g) # {}
                /\ \E i \in 1..Len(t.rows) :
                      /\ t.rows[i][t.pk] = v
                      /\ t.rows[i]["import_id"] = LastImportId(db, g)
                      /\ \E n \in 1..Len(EntriesOf(g)) :
                            /\ EntriesOf(g)[n].name = name
                            /\ \E r \in SeqRange(RowsOfEntry(EntriesOf(g)[n])) :
                                  HasContent(t, i, r)

\* C31 as it is stated: files of a batch are merged in list order. When two
\* files of a batch carry a row with the same key for the same primary-keyed
\* table, the database holds after the commit the row of the later file with
\* the later file's import_id, and both files have an Import Record.
C31_LaterFileWins ==
    [][\A p \in Procs : Commits(p) =>
          \A i, j \in 1..Len(files[p]) :
              i < j => LaterWins(store', files[p][i], files[p][j], {})]_vars

\* C31, amended: the same for two files that the batch has both merged,
\* neither of them skipped as already imported nor stopped by an error, when
\* no file after them in the batch writes a row with that key.
C31_MergedLaterFileWins ==
    [][\A p \in Procs : Commits(p) =>
          \A i, j \in 1..Len(files[p]) :
              (i < j /\ tripped[p][i] = "imported" /\ tripped[p][j] = "imported")
                  => LaterWins(store', files[p][i], files[p][j],
                               {files[p][l] : l \in {m \in (j + 1)..Len(files[p]) :
                                                       tripped[p][m] \in {"imported", "integrity"}}})]_vars

\* An import has committed a batch of two merged files that carry the same
\* key for table dev, and the database holds the row of the second one.
C31_Witness ==
    \E p \in Procs :
        /\ ImportOver(p)
        /\ outcome[p] = "committed"
        /\ files[p] = <<"m1_1", "m1_3">>
        /\ tripped[p] = <<"imported", "imported">>
        /\ store = temp[p]
        /\ \E i \in 1..Len(store.tables[Dev].rows) :
              /\ HasContent(store.tables[Dev], i, Row12w)
              /\ store.tables[Dev].rows[i]["import_id"] = LastImportId(store, "m1_3")

\* Process p's step is a forced import of a file whose content hash has an
\* Import Record in its private copy.
Reimports(p) ==
    /\ pc[p] = "locked"
    /\ op[p] = "import"
    /\ force[p]
    /\ idx'[p] = idx[p] + 1
    /\ RecordCount(temp[p], ShaOf(files[p][idx[p] + 1])) > 0

\* What C32 says of the table entry e when database dbb becomes dba: a table
\* with a primary key keeps its row count and has the rows of the entry
\* stamped with id, a table without one grows by the rows of the entry.
ReimportedEntry(dbb, dba, e, id) ==
    /\ TableExists(dbb, e.name)
    /\ LET tb   == dbb.tables[e.name]
           ta   == dba.tables[e.name]
           rows == RowsOfEntry(e)
       IN  IF PkTruthy(e.pk)
           THEN /\ Len(ta.rows) = Len(tb.rows)
                /\ \A j \in 1..Len(rows) :
                      \E i \in 1..Len(ta.rows) :
                          HasContent(ta, i, rows[j]) /\ ta.rows[i]["import_id"] = id
           ELSE Len(ta.rows) = Len(tb.rows) + Len(rows)

\* The forced import adds one Import Record with an id no record had.
AddsRecord(dbb, dba) ==
    /\ Len(dba.imports) = Len(dbb.imports) + 1
    /\ \A i \in 1..Len(dbb.imports) :
          /\ dba.imports[i] = dbb.imports[i]
          /\ dba.imports[Len(dba.imports)].id # dbb.imports[i].id

\* C32: forced re-import. Importing with force a file whose content hash has
\* an Import Record adds one Import Record with a new id, replaces the rows
\* of the tables it declares a primary key for (row count unchanged,
\* import_id the new id) and appends the rows of its other tables again.
C32_ForcedReimport ==
    [][\A p \in Procs : Reimports(p) =>
          /\ AddsRecord(temp[p], temp'[p])
          /\ \A n \in 1..Len(NextEntries(p)) :
                ReimportedEntry(temp[p], temp'[p], NextEntries(p)[n], NextImportId(p))]_vars

\* The same for a file that is merged without a constraint violation into
\* tables that have the primary key the file declares, or none when it
\* declares none.
C32_KeyAsDeclared ==
    [][\A p \in Procs :
          ( /\ Reimports(p)
            /\ tripped'[p][idx'[p]] = "imported"
            /\ \A n \in 1..Len(NextEntries(p)) :
                  LET e == NextEntries(p)[n]
                  IN  /\ TableExists(temp[p], e.name)
                      /\ temp[p].tables[e.name].pk = e.pk.col )
          => /\ AddsRecord(temp[p], temp'[p])
             /\ \A n \in 1..Len(NextEntries(p)) :
                   ReimportedEntry(temp[p], temp'[p], NextEntries(p)[n], NextImportId(p))]_vars

\* A forced import has merged a file for the second time: the database holds
\* two Import Records of its content hash, and table dev, which has the key
\* the file declares, holds its row with the id of the second one.
C32_KeyAsDeclaredWitness ==
    \E p \in Procs :
        /\ ImportOver(p)
        /\ outcome[p] = "committed"
        /\ force[p]
        /\ files[p] = <<"m1_1">>
        /\ RecordCount(store, ShaOf("m1_1")) = 2
        /\ store.tables[Dev].pk = "k"
        /\ Len(store.tables[Dev].rows) = 1
        /\ store.tables[Dev].rows[1]["import_id"] = IntV(2)

\* C33: single-column index coverage. After every file that is merged, every
\* column of every table the file names, import_id and the columns the file
\* adds among them, leads an index; and no file that passes the validator
\* ends in an exception that escapes, which a create_index on an indexed
\* column would raise.
C33_IndexCoverage ==
    [][\A p \in Procs :
          /\ Merges(p) =>
                \A n \in 1..Len(NextEntries(p)) :
                    LET e  == NextEntries(p)[n]
                        ta == temp'[p].tables[e.name]
                    IN  /\ KeysOf(RowsOfEntry(e)) \cup {"import_id"} \subseteq SeqRange(ta.cols)
                        /\ SeqRange(ta.cols) \subseteq ta.idx
          /\ ( /\ pc[p] = "locked"
               /\ op[p] = "import"
               /\ Len(tripped'[p]) = Len(tripped[p]) + 1
               /\ tripped'[p][Len(tripped'[p])] = "error" )
             => validate_module_response(JsonLoad(FileBytes(files[p][idx[p] + 1]))) # "ok"]_vars

\* An import has committed two merged files that both write table dev, the
\* second of them adding a column: every column of dev had an index when the
\* second file was indexed but the added one, and now all of them have.
C33_Witness ==
    \E p \in Procs :
        /\ ImportOver(p)
        /\ outcome[p] = "committed"
        /\ files[p] = <<"m1_1", "m1_3">>
        /\ tripped[p] = <<"imported", "imported">>
        /\ store = temp[p]
        /\ "w" \in store.tables[Dev].idx
        /\ store.tables[Dev].idx = SeqRange(store.tables[Dev].cols)

\* Process p's step is a call of _import_file on a cache file that exists.
ImportsFile(p) ==
    /\ pc[p] = "locked"
    /\ op[p] = "import"
    /\ Len(tripped'[p]) = Len(tripped[p]) + 1
    /\ tripped'[p][Len(tripped'[p])] # "missing"

\* The row with the columns of cols only.
Only(row, cols) == [c \in cols |-> row[c]]

\* Every row of table tb whose key is not among keys is a row of table ta,
\* as many times as tb holds it, with the value it had in every column of tb.
RowsKept(tb, ta, keys) ==
    LET cols   == SeqRange(tb.cols)
        framed == {i \in 1..Len(tb.rows) : tb.pk = NoPk \/ tb.rows[i][tb.pk] \notin keys}
    IN  /\ cols \subseteq SeqRange(ta.cols)
        /\ \A i \in framed :
              Cardinality({j \in 1..Len(ta.rows) : Only(ta.rows[j], cols) = tb.rows[i]})
                  >= Cardinality({j \in framed : tb.rows[j] = tb.rows[i]})

\* C34: frame of an import. The merge of a file leaves the Import Records
\* there are as they are, leaves every table the file does not name as it
\* is, and in a table it names leaves every row whose primary-key value is
\* not among the file's rows with all its values and its import_id.
C34_Frame ==
    [][\A p \in Procs : ImportsFile(p) =>
          LET dbb   == temp[p]
              dba   == temp'[p]
              named == {NextEntries(p)[n].name : n \in 1..Len(NextEntries(p))}
          IN  /\ Len(dba.imports) >= Len(dbb.imports)
              /\ \A i \in 1..Len(dbb.imports) : dba.imports[i] = dbb.imports[i]
              /\ \A name \in DOMAIN dbb.tables :
                    /\ name \in DOMAIN dba.tables
                    /\ name \notin named => dba.tables[name] = dbb.tables[name]
                    /\ name \in named =>
                          RowsKept(dbb.tables[name], dba.tables[name],
                                   FileKeys(dbb.tables[name], name, NextEntries(p)))]_vars

\* An import has merged m1_1 after m2_1: table dev holds the two rows of
\* m2_1, whose keys m1_1 does not carry, with the import_id of m2_1 next to
\* the row of m1_1, and table svc, which m1_1 does not name, holds its row.
C34_Witness ==
    \E p \in Procs :
        /\ pc[p] = "locked"
        /\ op[p] = "import"
        /\ files[p] = <<"m2_1", "m1_1">>
        /\ tripped[p] = <<"imported", "imported">>
        /\ Len(temp[p].imports) = 2
        /\ Len(temp[p].tables[Svc].rows) = 1
        /\ Cardinality({i \in 1..Len(temp[p].tables[Dev].rows) :
                           temp[p].tables[Dev].rows[i]["import_id"] = IntV(1)}) = 2
        /\ Cardinality({i \in 1..Len(temp[p].tables[Dev].rows) :
                           temp[p].tables[Dev].rows[i]["import_id"] = IntV(2)}) = 1

\* C35: replace is whole-row. When a row of a merged file has the key of a
\* stored row of a table with a primary key, the table holds afterwards one
\* row with that key: it has the values of the imported row, the new
\* import_id, and NULL in every other column, whatever the old row had there.
C35_WholeRowReplace ==
    [][\A p \in Procs : Merges(p) =>
          \A n \in 1..Len(NextEntries(p)) :
              LET e    == NextEntries(p)[n]
                  rows == RowsOfEntry(e)
                  tb   == temp[p].tables[e.name]
                  ta   == temp'[p].tables[e.name]
                  c    == tb.pk
              IN  (TableExists(temp[p], e.name) /\ c # NoPk) =>
                      \A j \in 1..Len(rows) :
                          ( /\ c \in DOMAIN rows[j]
                            /\ KeyMatches(tb, c, rows[j]) # {}
                            /\ \A l \in (j + 1)..Len(rows) :
                                  c \in DOMAIN rows[l] => rows[l][c] # rows[j][c] )
                          => /\ Cardinality(KeyMatches(ta, c, rows[j])) = 1
                             /\ \A i \in KeyMatches(ta, c, rows[j]) :
                                   \A col \in SeqRange(ta.cols) :
                                       ta.rows[i][col] =
                                           IF col = "import_id" THEN NextImportId(p)
                                           ELSE IF col \in DOMAIN rows[j]
                                           THEN Affinity(ta.types[col], rows[j][col])
                                           ELSE NULL]_vars

\* An import has merged m1_1 after m1_3: the row of dev with key 1 had a
\* value in column w, which the row of m1_1 does not carry, and reads NULL
\* there now, next to the values of m1_1 and the import_id of m1_1.
C35_Witness ==
    \E p \in Procs :
        /\ pc[p] = "locked"
        /\ op[p] = "import"
        /\ files[p] = <<"m1_3", "m1_1">>
        /\ tripped[p] = <<"imported", "imported">>
        /\ Len(temp[p].tables[Dev].rows) = 1
        /\ temp[p].tables[Dev].rows[1] =
              [k |-> IntV(1), v |-> IntV(1), w |-> NULL,
               import_id |-> IntV(Len(temp[p].imports))]

\* A finished search of one of the tables, which the database its statements
\* met holds, with a limit among limits, an offset >= 0, columns the table
\* has and an order that numbers one of them, has returned rows and no
\* error: with a limit > 0 min(limit, max(0, filteredCount - offset)) rows,
\* with the limit 0 max(0, filteredCount - offset) rows.
ReturnsPage(tables, limits) ==
    LET db == rlog[1].db
    IN  (/\ rpc = "done"
         /\ rargs.table \in tables
         /\ TableExists(db, rargs.table)
         /\ rargs.limit \in limits
         /\ rargs.offset >= 0
         /\ CheckColumns(db, rargs.table, rargs.columns).error = "none"
         /\ rargs.order \in 1..Len(rcols))
        => LET rest == Max(0, rres.filtered - rargs.offset)
           IN  /\ rres.error = "none"
               /\ Len(rres.rows) = IF rargs.limit > 0 THEN Min(rargs.limit, rest) ELSE rest

\* C36: paging for every limit and offset. For every limit >= 0 and offset
\* >= 0 a search of an existing table returns rows and not an error: min(limit,
\* max(0, filteredCount - offset)) rows with a limit > 0, all max(0,
\* filteredCount - offset) rows from the offset on with the limit 0.
C36_Paging == ReturnsPage({Dev, OpenPorts}, 0..MaxLimit)

\* C36 for the limits > 0 and the tables with a name SQLite reads as one
\* identifier.
C36_PositiveLimits == ReturnsPage({Dev}, 1..MaxLimit)

\* A search with a limit and an offset has returned the last row of a table
\* of two rows, and another page would have been empty.
C36_PositiveLimitsWitness ==
    /\ rpc = "done"
    /\ rargs.table = Dev
    /\ rargs.limit = MaxLimit
    /\ rargs.offset = 1
    /\ rres.error = "none"
    /\ rres.filtered = 2
    /\ Len(rres.rows) = 1
    /\ rlog # <<>>

\* C37: date re-hydration is never fatal. No cache file fails to be read for
\* a conversion; a string that matches a date or date-time pattern and cannot
\* be converted is read as the string it is, and the validator passes what
\* was read, so that the import of the file goes on.
C37_NeverFatal ==
    /\ call.step # "failed"
    /\ ( /\ call.step = "loaded"
         /\ TheValue(call.text)[1] = "string"
         /\ FailsConversion(TheValue(call.text)[2]) )
       => /\ TheValue(call.loaded) = CharsV(TheValue(call.text)[2])
          /\ call.valid = "ok"

\* A cache file with the string 2021-02-29, which matches the date pattern
\* and names no day, has been read and validated.
C37_Witness ==
    /\ call.step = "loaded"
    /\ call.valid = "ok"
    /\ TheValue(call.text) = <<"string", <<"2", "0", "2", "1", "-", "0", "2", "-", "2", "9">>>>
    /\ TheValue(call.loaded) = CharsV(<<"2", "0", "2", "1", "-", "0", "2", "-", "2", "9">>)

====
